---- MODULE Spec2Model ----
(***************************************************************************)
(* The standalone partitioned key-value engine of arch/api/standalone/     *)
(* eggroll.py: the meta registry, table handles (_DTable), the partition   *)
(* hasher, the point operations, put_all, destroy, cleanup and the         *)
(* per-partition operator kernels run by the worker pool.                  *)
(*                                                                         *)
(* Storage is modelled at the level of one LMDB database per partition     *)
(* directory: a finite map from key bytes to value bytes, with write       *)
(* transactions that buffer their writes until commit and hold the         *)
(* environment's writer lock.  Python objects are integers and strings;    *)
(* pickle (protocol 3) and SHA-1 are library code and are modelled by      *)
(* their actual outputs on the objects the model uses.                     *)
(***************************************************************************)
EXTENDS Integers, Sequences, FiniteSets, TLC

\* ------------------------------------------------------------------------
\* Bounds of the model
\* ------------------------------------------------------------------------
MaxPart == 2
MaxKey == 2
MaxOpKey == 3

\* Standalone.__init__: _DTable('__META__', '__META__', 'fragments', 10)
MetaPartitions == 10

\* ------------------------------------------------------------------------
\* Python values and their encodings
\* ------------------------------------------------------------------------
\* None among the int objects of the model (every int object is >= 0)
None == -1

\* the call raised instead of returning
Raised == -2

\* pickle protocol-3 opcodes: PROTO 3, BININT1, NONE, BINUNICODE, BINPUT 0, STOP
PickleProto == <<128, 3>>
OpBinInt1 == 75
OpNone == 78
OpBinUnicode == 88
OpBinPut == 113
OpStop == 46

\* str.encode('utf-8') of the table-key strings the model can build
Utf8 ==
    ("LMDB.ns.a" :> <<76, 77, 68, 66, 46, 110, 115, 46, 97>>) @@
    ("LMDB.ns.b" :> <<76, 77, 68, 66, 46, 110, 115, 46, 98>>) @@
    ("LMDB.job.u1" :> <<76, 77, 68, 66, 46, 106, 111, 98, 46, 117, 49>>) @@
    ("LMDB.job.u2" :> <<76, 77, 68, 66, 46, 106, 111, 98, 46, 117, 50>>) @@
    ("LMDB.job.u3" :> <<76, 77, 68, 66, 46, 106, 111, 98, 46, 117, 51>>) @@
    ("LMDB.job.u4" :> <<76, 77, 68, 66, 46, 106, 111, 98, 46, 117, 52>>) @@
    ("LMDB.job.u5" :> <<76, 77, 68, 66, 46, 106, 111, 98, 46, 117, 53>>) @@
    ("LMDB.job.u6" :> <<76, 77, 68, 66, 46, 106, 111, 98, 46, 117, 54>>) @@
    ("LMDB.job.u7" :> <<76, 77, 68, 66, 46, 106, 111, 98, 46, 117, 55>>) @@
    ("LMDB.job.u8" :> <<76, 77, 68, 66, 46, 106, 111, 98, 46, 117, 56>>) @@
    ("LMDB.job.u9" :> <<76, 77, 68, 66, 46, 106, 111, 98, 46, 117, 57>>) @@
    ("IN_MEMORY.ns.a" :> <<73, 78, 95, 77, 69, 77, 79, 82, 89, 46, 110, 115, 46, 97>>) @@
    ("IN_MEMORY.ns.b" :> <<73, 78, 95, 77, 69, 77, 79, 82, 89, 46, 110, 115, 46, 98>>) @@
    ("IN_MEMORY.job.u1" :> <<73, 78, 95, 77, 69, 77, 79, 82, 89, 46, 106, 111, 98, 46, 117, 49>>) @@
    ("IN_MEMORY.job.u2" :> <<73, 78, 95, 77, 69, 77, 79, 82, 89, 46, 106, 111, 98, 46, 117, 50>>) @@
    ("IN_MEMORY.job.u3" :> <<73, 78, 95, 77, 69, 77, 79, 82, 89, 46, 106, 111, 98, 46, 117, 51>>) @@
    ("IN_MEMORY.job.u4" :> <<73, 78, 95, 77, 69, 77, 79, 82, 89, 46, 106, 111, 98, 46, 117, 52>>) @@
    ("IN_MEMORY.job.u5" :> <<73, 78, 95, 77, 69, 77, 79, 82, 89, 46, 106, 111, 98, 46, 117, 53>>) @@
    ("IN_MEMORY.job.u6" :> <<73, 78, 95, 77, 69, 77, 79, 82, 89, 46, 106, 111, 98, 46, 117, 54>>) @@
    ("IN_MEMORY.job.u7" :> <<73, 78, 95, 77, 69, 77, 79, 82, 89, 46, 106, 111, 98, 46, 117, 55>>) @@
    ("IN_MEMORY.job.u8" :> <<73, 78, 95, 77, 69, 77, 79, 82, 89, 46, 106, 111, 98, 46, 117, 56>>) @@
    ("IN_MEMORY.job.u9" :> <<73, 78, 95, 77, 69, 77, 79, 82, 89, 46, 106, 111, 98, 46, 117, 57>>)
\* c_pickle.dumps(obj) for None or an int in 0..255
serialize(obj) ==
    IF obj = None THEN PickleProto \o <<OpNone, OpStop>>
    ELSE PickleProto \o <<OpBinInt1, obj, OpStop>>

\* c_pickle.dumps(s) for a short str
serialize_str(s) ==
    PickleProto \o <<OpBinUnicode, Len(Utf8[s]), 0, 0, 0>> \o Utf8[s]
        \o <<OpBinPut, 0, OpStop>>

\* c_pickle.loads(bytes) of a pickled None or int in 0..255
deserialize(bytes) == IF bytes[3] = OpNone THEN None ELSE bytes[4]

\* _DTable.kv_to_bytes with use_serialize=True (the default of every caller)
kv_to_bytes(obj) == serialize(obj)

\* ------------------------------------------------------------------------
\* Partition hasher
\* ------------------------------------------------------------------------
\* hashlib.sha1(b).digest()[0:8]: the low 64 bits of the little-endian digest
Sha1Digest ==
    (<<128, 3, 75, 0, 46>> :> <<146, 83, 69, 118, 155, 149, 74, 69>>) @@
    (<<128, 3, 75, 1, 46>> :> <<27, 193, 171, 199, 200, 115, 119, 219>>) @@
    (<<128, 3, 75, 2, 46>> :> <<157, 249, 227, 185, 159, 149, 75, 215>>) @@
    (<<128, 3, 75, 3, 46>> :> <<34, 70, 229, 121, 198, 82, 22, 44>>) @@
    (<<128, 3, 75, 4, 46>> :> <<122, 136, 38, 44, 110, 96, 40, 125>>) @@
    (<<128, 3, 75, 5, 46>> :> <<128, 126, 119, 150, 177, 47, 196, 69>>) @@
    (<<128, 3, 75, 6, 46>> :> <<237, 210, 199, 250, 243, 233, 48, 128>>) @@
    (<<128, 3, 75, 7, 46>> :> <<191, 104, 191, 115, 79, 112, 182, 100>>) @@
    (<<128, 3, 75, 8, 46>> :> <<106, 197, 127, 167, 7, 56, 16, 161>>) @@
    (<<128, 3, 75, 9, 46>> :> <<215, 27, 10, 83, 139, 110, 231, 187>>) @@
    (<<128, 3, 75, 10, 46>> :> <<60, 169, 254, 121, 236, 28, 175, 222>>) @@
    (<<128, 3, 75, 11, 46>> :> <<33, 163, 18, 112, 84, 201, 96, 1>>) @@
    (<<128, 3, 75, 12, 46>> :> <<140, 2, 142, 123, 62, 215, 205, 162>>) @@
    (<<128, 3, 75, 13, 46>> :> <<228, 53, 49, 121, 101, 163, 152, 100>>) @@
    (<<128, 3, 75, 14, 46>> :> <<72, 63, 43, 255, 232, 209, 51, 7>>) @@
    (<<128, 3, 75, 15, 46>> :> <<107, 122, 205, 9, 225, 194, 159, 65>>) @@
    (<<128, 3, 75, 16, 46>> :> <<207, 166, 63, 32, 240, 12, 44, 12>>) @@
    (<<128, 3, 75, 17, 46>> :> <<173, 153, 38, 219, 83, 80, 80, 239>>) @@
    (<<128, 3, 75, 18, 46>> :> <<180, 242, 112, 204, 219, 137, 186, 60>>) @@
    (<<128, 3, 75, 19, 46>> :> <<48, 143, 110, 52, 101, 97, 190, 101>>) @@
    (<<128, 3, 75, 20, 46>> :> <<130, 35, 49, 149, 232, 41, 111, 31>>) @@
    (<<128, 3, 75, 21, 46>> :> <<116, 26, 192, 32, 251, 176, 130, 224>>) @@
    (<<128, 3, 75, 22, 46>> :> <<133, 94, 241, 85, 162, 161, 11, 150>>) @@
    (<<128, 3, 75, 23, 46>> :> <<238, 50, 23, 224, 251, 244, 163, 234>>) @@
    (<<128, 3, 75, 24, 46>> :> <<164, 97, 179, 193, 85, 247, 3, 48>>) @@
    (<<128, 3, 75, 25, 46>> :> <<182, 184, 7, 198, 165, 155, 171, 195>>) @@
    (<<128, 3, 75, 26, 46>> :> <<5, 234, 70, 73, 41, 207, 119, 91>>) @@
    (<<128, 3, 75, 27, 46>> :> <<201, 81, 236, 110, 215, 254, 134, 100>>) @@
    (<<128, 3, 75, 28, 46>> :> <<249, 9, 65, 122, 51, 26, 96, 167>>) @@
    (<<128, 3, 75, 29, 46>> :> <<95, 100, 167, 200, 36, 237, 81, 169>>) @@
    (<<128, 3, 75, 30, 46>> :> <<234, 133, 233, 63, 8, 229, 203, 140>>) @@
    (<<128, 3, 75, 31, 46>> :> <<29, 93, 37, 138, 100, 237, 187, 36>>) @@
    (<<128, 3, 75, 32, 46>> :> <<93, 114, 0, 189, 40, 55, 109, 144>>) @@
    (<<128, 3, 75, 33, 46>> :> <<10, 10, 98, 238, 157, 170, 127, 177>>) @@
    (<<128, 3, 75, 34, 46>> :> <<213, 72, 11, 165, 55, 251, 20, 226>>) @@
    (<<128, 3, 75, 35, 46>> :> <<99, 158, 38, 213, 28, 248, 158, 124>>) @@
    (<<128, 3, 75, 36, 46>> :> <<45, 244, 14, 239, 119, 58, 120, 181>>) @@
    (<<128, 3, 75, 37, 46>> :> <<252, 206, 204, 152, 197, 192, 201, 139>>) @@
    (<<128, 3, 75, 38, 46>> :> <<92, 23, 78, 84, 17, 174, 15, 87>>) @@
    (<<128, 3, 75, 39, 46>> :> <<237, 197, 15, 140, 1, 3, 207, 170>>) @@
    (<<128, 3, 75, 40, 46>> :> <<231, 119, 133, 198, 110, 253, 228, 243>>) @@
    (<<128, 3, 75, 41, 46>> :> <<162, 15, 10, 147, 93, 154, 24, 142>>) @@
    (<<128, 3, 75, 42, 46>> :> <<196, 47, 245, 207, 34, 235, 204, 196>>) @@
    (<<128, 3, 75, 43, 46>> :> <<237, 250, 218, 124, 40, 247, 71, 39>>) @@
    (<<128, 3, 75, 44, 46>> :> <<219, 176, 206, 118, 37, 192, 132, 208>>) @@
    (<<128, 3, 75, 45, 46>> :> <<203, 120, 210, 169, 37, 222, 206, 71>>) @@
    (<<128, 3, 75, 46, 46>> :> <<135, 192, 159, 153, 145, 171, 88, 6>>) @@
    (<<128, 3, 75, 47, 46>> :> <<213, 169, 82, 220, 30, 212, 118, 235>>) @@
    (<<128, 3, 75, 48, 46>> :> <<216, 233, 27, 26, 28, 61, 110, 43>>) @@
    (<<128, 3, 75, 49, 46>> :> <<86, 211, 144, 101, 113, 33, 17, 148>>) @@
    (<<128, 3, 75, 50, 46>> :> <<87, 35, 249, 15, 8, 143, 84, 147>>) @@
    (<<128, 3, 75, 51, 46>> :> <<29, 222, 60, 240, 184, 95, 67, 166>>) @@
    (<<128, 3, 75, 52, 46>> :> <<254, 118, 13, 224, 200, 163, 189, 110>>) @@
    (<<128, 3, 75, 53, 46>> :> <<140, 167, 135, 192, 5, 140, 75, 98>>) @@
    (<<128, 3, 75, 54, 46>> :> <<144, 74, 119, 194, 59, 28, 41, 218>>) @@
    (<<128, 3, 75, 55, 46>> :> <<152, 121, 21, 103, 4, 166, 108, 144>>) @@
    (<<128, 3, 75, 56, 46>> :> <<198, 177, 245, 107, 62, 83, 179, 95>>) @@
    (<<128, 3, 75, 57, 46>> :> <<114, 165, 68, 130, 66, 93, 216, 66>>) @@
    (<<128, 3, 75, 58, 46>> :> <<99, 21, 38, 92, 145, 117, 144, 143>>) @@
    (<<128, 3, 75, 59, 46>> :> <<220, 248, 24, 193, 235, 106, 105, 111>>) @@
    (<<128, 3, 75, 60, 46>> :> <<152, 186, 165, 69, 35, 77, 214, 110>>) @@
    (<<128, 3, 75, 61, 46>> :> <<131, 84, 167, 205, 157, 210, 80, 13>>) @@
    (<<128, 3, 75, 62, 46>> :> <<179, 148, 167, 103, 101, 209, 170, 209>>) @@
    (<<128, 3, 75, 63, 46>> :> <<29, 61, 37, 141, 119, 142, 233, 214>>) @@
    (<<128, 3, 88, 9, 0, 0, 0, 76, 77, 68, 66, 46, 110, 115, 46, 97, 113, 0, 46>> :> <<248, 132, 184, 81, 97, 134, 116, 136>>) @@
    (<<128, 3, 88, 9, 0, 0, 0, 76, 77, 68, 66, 46, 110, 115, 46, 98, 113, 0, 46>> :> <<204, 32, 255, 216, 202, 27, 12, 3>>) @@
    (<<128, 3, 88, 11, 0, 0, 0, 76, 77, 68, 66, 46, 106, 111, 98, 46, 117, 49, 113, 0, 46>> :> <<76, 12, 244, 128, 20, 234, 237, 166>>) @@
    (<<128, 3, 88, 11, 0, 0, 0, 76, 77, 68, 66, 46, 106, 111, 98, 46, 117, 50, 113, 0, 46>> :> <<247, 53, 240, 245, 103, 38, 178, 242>>) @@
    (<<128, 3, 88, 11, 0, 0, 0, 76, 77, 68, 66, 46, 106, 111, 98, 46, 117, 51, 113, 0, 46>> :> <<251, 34, 212, 138, 243, 149, 201, 132>>) @@
    (<<128, 3, 88, 11, 0, 0, 0, 76, 77, 68, 66, 46, 106, 111, 98, 46, 117, 52, 113, 0, 46>> :> <<113, 174, 98, 27, 189, 208, 191, 116>>) @@
    (<<128, 3, 88, 11, 0, 0, 0, 76, 77, 68, 66, 46, 106, 111, 98, 46, 117, 53, 113, 0, 46>> :> <<1, 157, 201, 65, 114, 50, 236, 192>>) @@
    (<<128, 3, 88, 11, 0, 0, 0, 76, 77, 68, 66, 46, 106, 111, 98, 46, 117, 54, 113, 0, 46>> :> <<181, 196, 10, 9, 203, 241, 14, 86>>) @@
    (<<128, 3, 88, 11, 0, 0, 0, 76, 77, 68, 66, 46, 106, 111, 98, 46, 117, 55, 113, 0, 46>> :> <<84, 42, 101, 22, 135, 229, 58, 167>>) @@
    (<<128, 3, 88, 11, 0, 0, 0, 76, 77, 68, 66, 46, 106, 111, 98, 46, 117, 56, 113, 0, 46>> :> <<143, 245, 121, 170, 173, 126, 138, 123>>) @@
    (<<128, 3, 88, 11, 0, 0, 0, 76, 77, 68, 66, 46, 106, 111, 98, 46, 117, 57, 113, 0, 46>> :> <<31, 203, 111, 102, 252, 192, 219, 237>>) @@
    (<<128, 3, 88, 14, 0, 0, 0, 73, 78, 95, 77, 69, 77, 79, 82, 89, 46, 110, 115, 46, 97, 113, 0, 46>> :> <<16, 24, 18, 110, 116, 77, 68, 155>>) @@
    (<<128, 3, 88, 14, 0, 0, 0, 73, 78, 95, 77, 69, 77, 79, 82, 89, 46, 110, 115, 46, 98, 113, 0, 46>> :> <<34, 252, 228, 37, 191, 48, 90, 106>>) @@
    (<<128, 3, 88, 16, 0, 0, 0, 73, 78, 95, 77, 69, 77, 79, 82, 89, 46, 106, 111, 98, 46, 117, 49, 113, 0, 46>> :> <<52, 159, 237, 70, 105, 239, 96, 142>>) @@
    (<<128, 3, 88, 16, 0, 0, 0, 73, 78, 95, 77, 69, 77, 79, 82, 89, 46, 106, 111, 98, 46, 117, 50, 113, 0, 46>> :> <<89, 104, 215, 97, 10, 204, 152, 131>>) @@
    (<<128, 3, 88, 16, 0, 0, 0, 73, 78, 95, 77, 69, 77, 79, 82, 89, 46, 106, 111, 98, 46, 117, 51, 113, 0, 46>> :> <<215, 31, 37, 38, 156, 7, 152, 54>>) @@
    (<<128, 3, 88, 16, 0, 0, 0, 73, 78, 95, 77, 69, 77, 79, 82, 89, 46, 106, 111, 98, 46, 117, 52, 113, 0, 46>> :> <<237, 253, 39, 48, 43, 174, 75, 223>>) @@
    (<<128, 3, 88, 16, 0, 0, 0, 73, 78, 95, 77, 69, 77, 79, 82, 89, 46, 106, 111, 98, 46, 117, 53, 113, 0, 46>> :> <<171, 91, 130, 19, 206, 41, 43, 92>>) @@
    (<<128, 3, 88, 16, 0, 0, 0, 73, 78, 95, 77, 69, 77, 79, 82, 89, 46, 106, 111, 98, 46, 117, 54, 113, 0, 46>> :> <<108, 108, 172, 155, 169, 201, 154, 8>>) @@
    (<<128, 3, 88, 16, 0, 0, 0, 73, 78, 95, 77, 69, 77, 79, 82, 89, 46, 106, 111, 98, 46, 117, 55, 113, 0, 46>> :> <<205, 29, 240, 137, 65, 147, 178, 58>>) @@
    (<<128, 3, 88, 16, 0, 0, 0, 73, 78, 95, 77, 69, 77, 79, 82, 89, 46, 106, 111, 98, 46, 117, 56, 113, 0, 46>> :> <<68, 214, 182, 173, 119, 17, 41, 33>>) @@
    (<<128, 3, 88, 16, 0, 0, 0, 73, 78, 95, 77, 69, 77, 79, 82, 89, 46, 106, 111, 98, 46, 117, 57, 113, 0, 46>> :> <<239, 194, 175, 40, 141, 181, 238, 4>>)
\* A 64-bit word is eight 8-bit limbs, least significant first.
\* 2862933555777941757
MulConst == <<253, 176, 176, 135, 230, 46, 187, 39>>

RECURSIVE Column(_, _, _)
Column(a, i, j) ==
    IF j > i THEN 0 ELSE a[j] * MulConst[i - j + 1] + Column(a, i, j + 1)

RECURSIVE MulAddLimbs(_, _, _)
\* limb i of the sum is t % 256 and t \div 256 is carried into limb i + 1
MulAddLimb(a, i, t) == <<t % 256>> \o MulAddLimbs(a, i + 1, t \div 256)

MulAddLimbs(a, i, carry) ==
    IF i > 8 THEN <<>> ELSE MulAddLimb(a, i, Column(a, i, 1) + carry)

\* ((_key * 2862933555777941757) + 1) & 0xffffffffffffffff
NextSeed(key) == MulAddLimbs(key, 1, 1)

\* _key >> 33, a value in 0..2^31 - 1
Shift33(key) ==
    (key[5] \div 2) + key[6] * 128 + key[7] * 32768 + key[8] * 8388608

Pow30 == 1073741824
IntMax == 2147483647

\* <<m * r \div d, m * r % d>> for 0 <= r < d, without leaving 32 bits
RECURSIVE MulDivMod(_, _, _)
MulDivStep(prev, r, d) ==
    IF prev[2] >= d - r
    THEN <<prev[1] + 1, prev[2] - (d - r)>>
    ELSE <<prev[1], prev[2] + r>>

MulDivMod(m, r, d) ==
    IF m = 0 THEN <<0, 0>> ELSE MulDivStep(MulDivMod(m - 1, r, d), r, d)

\* the comparison `j < partitions` only needs j up to partitions
JumpClip(j, partitions) == IF j < partitions THEN j ELSE partitions

\* float(b + 1) * (2^31 / d) for 2^30 = a * d + c, truncated by int()
JumpScale(b, d, a, c, partitions) ==
    IF a >= partitions THEN partitions
    ELSE IF c >= d - c
         THEN JumpClip((b + 1) * (2 * a + 1) + MulDivMod(b + 1, c - (d - c), d)[1],
                       partitions)
         ELSE JumpClip((b + 1) * (2 * a) + MulDivMod(b + 1, c + c, d)[1],
                       partitions)

\* float(b + 1) * (float(1 << 31) / float(x + 1)) for x = _key >> 33
JumpShifted(b, x, partitions) ==
    IF x = IntMax
    THEN JumpClip(b + 1, partitions)
    ELSE JumpScale(b, x + 1, Pow30 \div (x + 1), Pow30 % (x + 1), partitions)

\* j = float(b + 1) * (float(1 << 31) / float((_key >> 33) + 1)), or
\* partitions when j >= partitions
JumpTarget(b, key, partitions) == JumpShifted(b, Shift33(key), partitions)

RECURSIVE JumpLoop(_, _, _)
\* while j < partitions: b = int(j)
JumpNext(b, j, key1, partitions) ==
    IF j < partitions THEN JumpLoop(j, key1, partitions) ELSE b

\* one round of the loop on the reseeded key
JumpRound(b, key1, partitions) ==
    JumpNext(b, JumpTarget(b, key1, partitions), key1, partitions)

JumpLoop(b, key, partitions) == JumpRound(b, NextSeed(key), partitions)

\* The hasher on every key of the model, computed once: b, j = -1, 0 makes the
\* first round unconditional (j < partitions for partitions >= 1) and sets b = 0
PartitionOf ==
    [key \in DOMAIN Sha1Digest |->
        [partitions \in 1..MetaPartitions |-> JumpLoop(0, Sha1Digest[key], partitions)]]

\* a hasher without the `partitions < 1` check
hash_key_unchecked(key, partitions) ==
    PartitionOf[key][IF partitions < 1 THEN 1 ELSE partitions]

\* _hash_key_to_partition(key, partitions): raise ValueError when partitions < 1
hash_key_to_partition(key, partitions) ==
    IF partitions < 1 THEN Raised ELSE PartitionOf[key][partitions]


\* ------------------------------------------------------------------------
\* State
\* ------------------------------------------------------------------------
VARIABLES
    disk,        \* partition directory -> its LMDB database (key bytes -> value bytes)
    namespaces,  \* the {data_dir}/{type}/{namespace} directories that exist
    handles,     \* the _DTable objects the control program holds
    leaked,      \* partition directories whose writer lock an unfinished txn holds
    last,        \* the last call of the control program: what was called, on
                 \* which table, with which arguments, and what it returned
    run,         \* the data-parallel operator call in progress: its operands,
                 \* its pool tasks and, once it returned, the derived table
    cache        \* the environment cache of _open_env in the process: the keys
                 \* it holds, the least recently used first, the environments
                 \* with a transaction in progress and those closed under one

vars == <<disk, namespaces, handles, leaked, last, run, cache>>

Keys == 1..MaxKey
Values == {1, 2}
PartitionChoices == 1..MaxPart
UserNames == {"a"}
UserNamespace == "ns"

\* StoreType.LMDB.value / StoreType.IN_MEMORY.value
StoreTypeOf(persistent) == IF persistent THEN "LMDB" ELSE "IN_MEMORY"

\* _DTable.__init__
DTable(type, namespace, name, partitions) ==
    [type |-> type, namespace |-> namespace, name |-> name, partitions |-> partitions]

\* Standalone.__init__: self.meta_table
MetaTable == DTable("__META__", "__META__", "fragments", MetaPartitions)

\* ".".join([type, namespace, name])
TableKey(type, namespace, name) == type \o "." \o namespace \o "." \o name

\* _get_db_path(type, namespace, name, str(p)), below data_dir
PartPath(T, p) == <<T.type, T.namespace, T.name, p>>
PartPaths(T) == {PartPath(T, p) : p \in 0..(T.partitions - 1)}

EmptyDb == [kb \in {} |-> <<>>]

\* _open_env: os.makedirs(path, exist_ok=True); lmdb.open(path, create=True)
OpenEnv(d, path) ==
    IF path \in DOMAIN d THEN d
    ELSE [x \in DOMAIN d \cup {path} |-> IF x = path THEN EmptyDb ELSE d[x]]

RECURSIVE OpenEnvs(_, _)
OpenEnvs(d, paths) ==
    IF paths = {} THEN d
    ELSE LET path == CHOOSE x \in paths : TRUE
         IN  OpenEnvs(OpenEnv(d, path), paths \ {path})

\* txn.put / txn.delete / txn.drop on one database
DbPut(db, kb, vb) == [x \in DOMAIN db \cup {kb} |-> IF x = kb THEN vb ELSE db[x]]
DbDelete(db, kb) == [x \in DOMAIN db \ {kb} |-> db[x]]

\* the database the partition of key bytes kb holds (empty when never opened)
PartDb(d, T, kb) ==
    LET path == PartPath(T, hash_key_to_partition(kb, T.partitions))
    IN  IF path \in DOMAIN d THEN d[path] ELSE EmptyDb

\* two handles of the same table
SameTable(T1, T2) ==
    T1.type = T2.type /\ T1.namespace = T2.namespace /\ T1.name = T2.name

\* the database of partition p of T (empty when the directory does not exist)
PartitionDb(d, T, p) == IF PartPath(T, p) \in DOMAIN d THEN d[PartPath(T, p)] ELSE EmptyDb

\* a put that ignores the hasher and always writes partition 0
put_unrouted(d, T, k_bytes, v_bytes) ==
    LET d1 == OpenEnv(d, PartPath(T, 0))
    IN  [d1 EXCEPT ![PartPath(T, 0)] = DbPut(@, k_bytes, v_bytes)]

\* _DTable.put after kv_to_bytes
put_bytes(d, T, k_bytes, v_bytes) ==
    LET p == hash_key_to_partition(k_bytes, T.partitions)
        d1 == OpenEnv(d, PartPath(T, p))
    IN  [d1 EXCEPT ![PartPath(T, p)] = DbPut(@, k_bytes, v_bytes)]

put(d, T, k, v) == put_bytes(d, T, kv_to_bytes(k), kv_to_bytes(v))

\* _DTable.get: the value returned
get_bytes(d, T, k_bytes) ==
    LET db == PartDb(d, T, k_bytes)
    IN  IF k_bytes \in DOMAIN db THEN deserialize(db[k_bytes]) ELSE None

get(d, T, k) == get_bytes(d, T, kv_to_bytes(k))

\* _DTable.get: the directory its env.open leaves behind
get_disk(d, T, k_bytes) ==
    OpenEnv(d, PartPath(T, hash_key_to_partition(k_bytes, T.partitions)))

\* a delete that opens the partition and removes nothing
delete_noop(d, T, k_bytes) ==
    OpenEnv(d, PartPath(T, hash_key_to_partition(k_bytes, T.partitions)))

\* _DTable.delete: the disk afterwards, and the value returned
delete_bytes(d, T, k_bytes) ==
    LET p == hash_key_to_partition(k_bytes, T.partitions)
        d1 == OpenEnv(d, PartPath(T, p))
    IN  [d1 EXCEPT ![PartPath(T, p)] = DbDelete(@, k_bytes)]

delete(d, T, k) == delete_bytes(d, T, kv_to_bytes(k))

delete_ret(d, T, k) == get(d, T, k)

\* a put_if_absent that overwrites what is stored
put_if_absent_overwrites(d, T, k_bytes, v_bytes) == put_bytes(d, T, k_bytes, v_bytes)

\* _DTable.put_if_absent: the disk afterwards, and the value returned
put_if_absent_bytes(d, T, k_bytes, v_bytes) ==
    LET p == hash_key_to_partition(k_bytes, T.partitions)
        d1 == OpenEnv(d, PartPath(T, p))
    IN  IF k_bytes \in DOMAIN d1[PartPath(T, p)]
        THEN d1
        ELSE [d1 EXCEPT ![PartPath(T, p)] = DbPut(@, k_bytes, v_bytes)]

put_if_absent(d, T, k, v) == put_if_absent_bytes(d, T, kv_to_bytes(k), kv_to_bytes(v))

put_if_absent_ret(d, T, k) == get(d, T, k)

\* _DTable.count
RECURSIVE SumEntries(_, _)
SumEntries(d, paths) ==
    IF paths = {} THEN 0
    ELSE LET path == CHOOSE x \in paths : TRUE
         IN  (IF path \in DOMAIN d THEN Cardinality(DOMAIN d[path]) ELSE 0)
                 + SumEntries(d, paths \ {path})

\* a count that reads the entries of partition 0 only
count_first_partition(d, T) == SumEntries(d, {PartPath(T, 0)})

count(d, T) == SumEntries(d, PartPaths(T))

\* Standalone.table: the disk afterwards, and the handle returned
table_key_bytes(type, namespace, name) == serialize_str(TableKey(type, namespace, name))

\* a table() that records the requested partition count on every call
table_disk_last_writer(d, name, namespace, partition, persistent) ==
    put_bytes(d, MetaTable,
        table_key_bytes(StoreTypeOf(persistent), namespace, name), serialize(partition))

table_disk(d, name, namespace, partition, persistent) ==
    put_if_absent_bytes(d, MetaTable,
        table_key_bytes(StoreTypeOf(persistent), namespace, name), serialize(partition))

table(d, name, namespace, partition, persistent) ==
    DTable(StoreTypeOf(persistent), namespace, name,
        get_bytes(table_disk(d, name, namespace, partition, persistent), MetaTable,
            table_key_bytes(StoreTypeOf(persistent), namespace, name)))

\* the partition count the meta registry records for a table, or None
MetaCount(d, type, namespace, name) ==
    get_bytes(d, MetaTable, table_key_bytes(type, namespace, name))

\* the meta registry partition a table's entry lives in
MetaPath(type, namespace, name) ==
    PartPath(MetaTable,
        hash_key_to_partition(table_key_bytes(type, namespace, name), MetaPartitions))

\* ------------------------------------------------------------------------
\* put_all
\* ------------------------------------------------------------------------
\* What the input iterator of put_all yields next: a (k, v) pair, a pair that
\* kv_to_bytes or txn.put rejects (raised inside the try), an object that is
\* no pair (the `for k, v in` unpacking raises), or an error of the iterator.
PairItem(k, v) == [kind |-> "pair", k |-> k, v |-> v]
BadPairItem == [kind |-> "bad_pair", k |-> None, v |-> None]
NotAPairItem == [kind |-> "not_a_pair", k |-> None, v |-> None]
IterErrorItem == [kind |-> "iter_error", k |-> None, v |-> None]

\* the `for k, v in kv_list` loop over the open transactions txn_map
RECURSIVE put_all_loop(_, _, _, _)
put_all_loop(T, txn_map, kv_list, i) ==
    IF i > Len(kv_list) THEN [txn_map |-> txn_map, outcome |-> "commit"]
    ELSE IF kv_list[i].kind \in {"not_a_pair", "iter_error"}
         THEN [txn_map |-> txn_map, outcome |-> "raise"]
    ELSE IF kv_list[i].kind = "bad_pair"
         THEN [txn_map |-> txn_map, outcome |-> "abort"]
    ELSE LET k_bytes == kv_to_bytes(kv_list[i].k)
             v_bytes == kv_to_bytes(kv_list[i].v)
             p == hash_key_to_partition(k_bytes, T.partitions)
         IN  put_all_loop(T, [txn_map EXCEPT ![p] = DbPut(@, k_bytes, v_bytes)],
                          kv_list, i + 1)

\* _DTable.put_all: [disk, outcome]
put_all(d, T, kv_list) ==
    LET d1 == OpenEnvs(d, PartPaths(T))
        txn_map == [p \in 0..(T.partitions - 1) |-> d1[PartPath(T, p)]]
        done == put_all_loop(T, txn_map, kv_list, 1)
    IN  [outcome |-> done.outcome,
         disk |-> IF done.outcome = "commit"
                  THEN [path \in DOMAIN d1 |->
                           IF path \in PartPaths(T) THEN done.txn_map[path[4]]
                           ELSE d1[path]]
                  ELSE d1]

\* ------------------------------------------------------------------------
\* destroy and cleanup
\* ------------------------------------------------------------------------
InTableDir(path, type, namespace, name) ==
    path[1] = type /\ path[2] = namespace /\ path[3] = name

\* shutil.rmtree of the table directories `names` of one namespace directory
RmTrees(d, type, namespace, names) ==
    [path \in {x \in DOMAIN d :
                  ~(x[1] = type /\ x[2] = namespace /\ x[3] \in names)} |-> d[path]]

\* a destroy that leaves the meta registry as it is
destroy_keeps_meta(d, T) ==
    RmTrees(OpenEnvs(d, PartPaths(T)), T.type, T.namespace, {T.name})

\* _DTable.destroy
destroy(d, T) ==
    LET d1 == OpenEnvs(d, PartPaths(T))
        d2 == delete_bytes(d1, MetaTable, table_key_bytes(T.type, T.namespace, T.name))
    IN  RmTrees(d2, T.type, T.namespace, {T.name})

\* fnmatch.filter(names, pattern) for a pattern that is a plain name or "*"
FnMatch(name, pattern) == pattern = "*" \/ pattern = name

\* os.listdir(_namespace_dir)
ListDir(d, type, namespace) ==
    {path[3] : path \in {x \in DOMAIN d : x[1] = type /\ x[2] = namespace}}

\* Standalone.cleanup: the error it raises, or "ok"
cleanup_check(ns, name, namespace, persistent) ==
    IF namespace = "" \/ name = "" THEN "ValueError"
    ELSE IF ~(\E x \in ns : x[1] = StoreTypeOf(persistent)) THEN "EnvironmentError"
    ELSE IF <<StoreTypeOf(persistent), namespace>> \notin ns THEN "EnvironmentError"
    ELSE "ok"

\* a cleanup that removes every table directory of the namespace
cleanup_whole_namespace(d, name, namespace, persistent) ==
    RmTrees(d, StoreTypeOf(persistent), namespace,
        ListDir(d, StoreTypeOf(persistent), namespace))

cleanup(d, name, namespace, persistent) ==
    RmTrees(d, StoreTypeOf(persistent), namespace,
        {t \in ListDir(d, StoreTypeOf(persistent), namespace) : FnMatch(t, name)})

\* ------------------------------------------------------------------------
\* collect and save_as
\* ------------------------------------------------------------------------
\* bytes a sorts before bytes b (the key order of an LMDB cursor and of heapq)
BytesLess(a, b) ==
    \/ \E i \in 1..Len(a) :
           /\ i <= Len(b)
           /\ \A j \in 1..(i - 1) : a[j] = b[j]
           /\ a[i] < b[i]
    \/ Len(a) < Len(b) /\ \A j \in 1..Len(a) : a[j] = b[j]

\* the (key bytes, value bytes, cursor id) entries the cursors of T hold
CursorEntries(d, T) ==
    UNION {{<<kb, PartitionDb(d, T, p)[kb], p>> : kb \in DOMAIN PartitionDb(d, T, p)} :
              p \in 0..(T.partitions - 1)}

\* _DTable._merge: the heap yields the least [key, value, _id] first
RECURSIVE merge(_)
merge(entries) ==
    IF entries = {} THEN <<>>
    ELSE LET e == CHOOSE x \in entries :
                      \A y \in entries \ {x} :
                          \/ BytesLess(x[1], y[1])
                          \/ x[1] = y[1] /\ BytesLess(x[2], y[2])
                          \/ x[1] = y[1] /\ x[2] = y[2] /\ x[3] < y[3]
         IN  <<PairItem(deserialize(e[1]), deserialize(e[2]))>> \o merge(entries \ {e})

\* _DTable.collect: the pairs its generator yields
collect(d, T) == merge(CursorEntries(d, T))

\* the i-th str(uuid.uuid1()) of the process
UuidNames == <<"u1", "u2", "u3", "u4", "u5", "u6", "u7", "u8", "u9">>
uuid1(n) == UuidNames[n + 1]

\* Standalone.job_id
JobId == "job"

\* _DTable.save_as: [disk, dup]
save_as(d, T, name, namespace, partition) ==
    LET dup == table(d, name, namespace, partition, TRUE)
        d1 == table_disk(d, name, namespace, partition, TRUE)
        d2 == OpenEnvs(d1, PartPaths(T))
    IN  [disk |-> put_all(d2, dup, collect(d, T)).disk, dup |-> dup]

\* ------------------------------------------------------------------------
\* The pool tasks
\* ------------------------------------------------------------------------
\* the functions the control program passes to the operators
apply_func(func, v1, v2) ==
    IF func = "concat" THEN 10 * v1 + v2     \* lambda v1, v2: 10 * v1 + v2
    ELSE v1                                  \* the default of union: lambda v1, v2: v1

apply_mapper(func, k, v) ==
    IF func = "shift" THEN <<k + 1, v>>      \* lambda k, v: (k + 1, v)
    ELSE <<MaxOpKey + 1 - k, 10 * v>>        \* lambda k, v: (MaxOpKey + 1 - k, 10 * v)

\* _TaskInfo, _Operand
TaskInfo(task_id, function_id, func) ==
    [task_id |-> task_id, function_id |-> function_id, func |-> func]
Operand(type, namespace, name, partition) ==
    [type |-> type, namespace |-> namespace, name |-> name, partition |-> partition]
OperandOf(T, p) == Operand(T.type, T.namespace, T.name, p)
OperandPath(op) == <<op.type, op.namespace, op.name, op.partition>>

\* a do_join that hands the right value to the joiner first
do_join_swapped(d, info, left_op, right_op) ==
    LET rtn == Operand("IN_MEMORY", info.task_id, info.function_id, left_op.partition)
        d1 == OpenEnvs(d, {OperandPath(right_op), OperandPath(left_op), OperandPath(rtn)})
        left == d1[OperandPath(left_op)]
        right == d1[OperandPath(right_op)]
        dst == d1[OperandPath(rtn)]
        joined == {kb \in DOMAIN left : kb \in DOMAIN right}
    IN  [d1 EXCEPT ![OperandPath(rtn)] =
            [kb \in DOMAIN dst \cup joined |->
                IF kb \in joined
                THEN serialize(apply_func(info.func, deserialize(right[kb]),
                                          deserialize(left[kb])))
                ELSE dst[kb]]]

\* do_join: the disk after the task
do_join(d, info, left_op, right_op) ==
    LET rtn == Operand("IN_MEMORY", info.task_id, info.function_id, left_op.partition)
        d1 == OpenEnvs(d, {OperandPath(right_op), OperandPath(left_op), OperandPath(rtn)})
        left == d1[OperandPath(left_op)]
        right == d1[OperandPath(right_op)]
        dst == d1[OperandPath(rtn)]
        joined == {kb \in DOMAIN left : kb \in DOMAIN right}
    IN  [d1 EXCEPT ![OperandPath(rtn)] =
            [kb \in DOMAIN dst \cup joined |->
                IF kb \in joined
                THEN serialize(apply_func(info.func, deserialize(left[kb]),
                                          deserialize(right[kb])))
                ELSE dst[kb]]]

\* do_subtract_by_key: the disk after the task
do_subtract_by_key(d, info, left_op, right_op) ==
    LET rtn == Operand("IN_MEMORY", info.task_id, info.function_id, left_op.partition)
        d1 == OpenEnvs(d, {OperandPath(right_op), OperandPath(left_op), OperandPath(rtn)})
        left == d1[OperandPath(left_op)]
        right == d1[OperandPath(right_op)]
        dst == d1[OperandPath(rtn)]
        kept == {kb \in DOMAIN left : kb \notin DOMAIN right}
    IN  [d1 EXCEPT ![OperandPath(rtn)] =
            [kb \in DOMAIN dst \cup kept |-> IF kb \in kept THEN left[kb] ELSE dst[kb]]]

\* do_union: the pass over the left cursor
do_union_left_pass(d, info, left_op, right_op) ==
    LET rtn == Operand("IN_MEMORY", info.task_id, info.function_id, left_op.partition)
        d1 == OpenEnvs(d, {OperandPath(right_op), OperandPath(left_op), OperandPath(rtn)})
        left == d1[OperandPath(left_op)]
        right == d1[OperandPath(right_op)]
        dst == d1[OperandPath(rtn)]
    IN  [d1 EXCEPT ![OperandPath(rtn)] =
            [kb \in DOMAIN dst \cup DOMAIN left |->
                IF kb \notin DOMAIN left THEN dst[kb]
                ELSE IF kb \notin DOMAIN right THEN left[kb]
                ELSE serialize(apply_func(info.func, deserialize(left[kb]),
                                          deserialize(right[kb])))]]

\* a do_union that stops after the left cursor
do_union_keeps_left(d, info, left_op, right_op) ==
    do_union_left_pass(d, info, left_op, right_op)

\* do_union: the pass over the left cursor, then the pass over the right one
do_union(d, info, left_op, right_op) ==
    LET rtn == Operand("IN_MEMORY", info.task_id, info.function_id, left_op.partition)
        d1 == do_union_left_pass(d, info, left_op, right_op)
        right == d1[OperandPath(right_op)]
        dst == d1[OperandPath(rtn)]
    IN  [d1 EXCEPT ![OperandPath(rtn)] =
            [kb \in DOMAIN dst \cup DOMAIN right |->
                IF kb \in DOMAIN dst THEN dst[kb] ELSE right[kb]]]

\* the functions the control program passes to mapValues, filter and reduce
apply_value_mapper(func, v) ==
    IF func = "tenfold" THEN 10 * v          \* lambda v: 10 * v
    ELSE v + 1                               \* lambda v: v + 1

apply_filter(func, k) ==
    IF func = "odd" THEN k % 2 = 1           \* lambda k: k % 2 == 1
    ELSE k > 1                               \* lambda k: k > 1

\* operator.add and max raise TypeError on None
apply_reducer(func, v1, v2) ==
    IF v1 = None \/ v2 = None THEN Raised
    ELSE IF func = "add" THEN v1 + v2        \* operator.add
    ELSE IF v1 >= v2 THEN v1 ELSE v2         \* max

\* a task that writes in place, into the partition of the source it reads
unary_rtn_in_place(info, op) == op

\* a task that writes partition 0 of the derived table, whichever partition
\* of the source it reads
unary_rtn_first(info, op) == Operand("IN_MEMORY", info.task_id, info.function_id, 0)

\* functions that raise: "mirror_strict" is the mapper "mirror" and
\* "succ_strict" the value mapper "succ", each raising ValueError on 1
mapper_raises(func, k, v) == func = "mirror_strict" /\ k = 1

value_mapper_raises(func, v) == func = "succ_strict" /\ v = 1

\* do_map, do_map_values: the loop over the cursor of `source` raises
do_map_raises(func, source) ==
    \E kb \in DOMAIN source : mapper_raises(func, deserialize(kb), deserialize(source[kb]))

do_map_values_raises(func, source) ==
    \E kb \in DOMAIN source : value_mapper_raises(func, deserialize(source[kb]))

\* rtn of a task of a unary operator
UnaryRtn(info, op) == Operand("IN_MEMORY", info.task_id, info.function_id, op.partition)

\* source_env = op.as_env(); dst_env = rtn.as_env(write=True)
UnaryEnvs(d, info, op) == OpenEnvs(d, {OperandPath(op), OperandPath(UnaryRtn(info, op))})

\* a do_map_values that stores the source value
map_values_unmapped(d1, func, src, dst) ==
    [d1 EXCEPT ![dst] =
        [kb \in DOMAIN d1[dst] \cup DOMAIN d1[src] |->
            IF kb \in DOMAIN d1[src] THEN d1[src][kb] ELSE d1[dst][kb]]]

\* do_map_values: the loop over the source cursor and the commit
map_values_txn(d1, func, src, dst) ==
    [d1 EXCEPT ![dst] =
        [kb \in DOMAIN d1[dst] \cup DOMAIN d1[src] |->
            IF kb \in DOMAIN d1[src]
            THEN serialize(apply_value_mapper(func, deserialize(d1[src][kb])))
            ELSE d1[dst][kb]]]

\* do_map_values: the disk after the task
do_map_values(d, info, op) ==
    map_values_txn(UnaryEnvs(d, info, op), info.func,
                   OperandPath(op), OperandPath(UnaryRtn(info, op)))

\* the entries of the source the loop of a task copies: those under `kept`
copy_txn(d1, kept, src, dst) ==
    [d1 EXCEPT ![dst] =
        [kb \in DOMAIN d1[dst] \cup kept |->
            IF kb \in kept THEN d1[src][kb] ELSE d1[dst][kb]]]

\* a do_filter that copies the entries the predicate rejects
filter_inverted(d1, func, src, dst) ==
    copy_txn(d1, {kb \in DOMAIN d1[src] : ~apply_filter(func, deserialize(kb))}, src, dst)

\* do_filter: the loop over the source cursor and the commit
filter_txn(d1, func, src, dst) ==
    copy_txn(d1, {kb \in DOMAIN d1[src] : apply_filter(func, deserialize(kb))}, src, dst)

\* do_filter: the disk after the task
do_filter(d, info, op) ==
    filter_txn(UnaryEnvs(d, info, op), info.func,
               OperandPath(op), OperandPath(UnaryRtn(info, op)))

\* the keys of a database in cursor order
RECURSIVE cursor_keys(_)
cursor_keys(kbs) ==
    IF kbs = {} THEN <<>>
    ELSE LET kb == CHOOSE x \in kbs : \A y \in kbs \ {x} : BytesLess(x, y)
         IN  <<kb>> \o cursor_keys(kbs \ {kb})

\* floor(2^30 * u) of the first draws u of np.random.RandomState(seed).rand()
RandUnit == 1073741824
RandomState ==
    (42 :> <<402159390, 1020821713, 785972510, 642804652, 167523739>>) @@
    (7 :> <<81935401, 837431426, 470738327, 776814819, 1050108242>>)

\* a generator that ignores the seed it is given
RandomStreamsUnseeded(seed) == {RandomState[s] : s \in DOMAIN RandomState}

\* the draws of RandomState(seed): seed None takes the state from the
\* operating system, which may be any
RandomStreams(seed) ==
    IF seed = None THEN {RandomState[s] : s \in DOMAIN RandomState}
    ELSE {RandomState[seed]}

\* a do_sample that keeps the entries whose draw is not below the fraction
sample_complement(keys, fraction, draws) ==
    {keys[i] : i \in {j \in 1..Len(keys) : ~(draws[j] < fraction)}}

\* do_sample: `if random_state.rand() < fraction`, fraction in units of 2^-30
sample_kept(keys, fraction, draws) ==
    {keys[i] : i \in {j \in 1..Len(keys) : draws[j] < fraction}}

\* do_sample: the loop over the source cursor and the commit
sample_txn(d1, fraction, draws, src, dst) ==
    copy_txn(d1, sample_kept(cursor_keys(DOMAIN d1[src]), fraction, draws), src, dst)

\* do_sample: the disk after the task
do_sample(d, info, op, draws) ==
    sample_txn(UnaryEnvs(d, info, op), info.func[1], draws,
               OperandPath(op), OperandPath(UnaryRtn(info, op)))


\* pickle protocol-3 opcodes of a list of 2-tuples: EMPTY_LIST, MARK, TUPLE2,
\* APPEND, APPENDS
OpEmptyList == 93
OpMark == 40
OpTuple2 == 134
OpAppend == 97
OpAppends == 101

\* the pickle of an int or None inside a container
save_obj(obj) == IF obj = None THEN <<OpNone>> ELSE <<OpBinInt1, obj>>

\* the pickles of the tuples of v_list from the i-th on, each memoised
RECURSIVE save_tuples(_, _)
save_tuples(v_list, i) ==
    IF i > Len(v_list) THEN <<>>
    ELSE save_obj(v_list[i][1]) \o save_obj(v_list[i][2]) \o <<OpTuple2, OpBinPut, i>>
             \o save_tuples(v_list, i + 1)

\* c_pickle.dumps(v_list) for a list of (k, v) tuples of ints in 0..255 or None
serialize_list(v_list) ==
    PickleProto \o <<OpEmptyList, OpBinPut, 0>>
        \o (IF Len(v_list) = 0 THEN <<>>
            ELSE IF Len(v_list) = 1 THEN save_tuples(v_list, 1) \o <<OpAppend>>
            ELSE <<OpMark>> \o save_tuples(v_list, 1) \o <<OpAppends>>)
        \o <<OpStop>>

\* the first key of the cursor instead of the last
cursor_first(source) == cursor_keys(DOMAIN source)[1]

\* the key the cursor is on after the loop or after cursor.last()
cursor_last(source) == cursor_keys(DOMAIN source)[Cardinality(DOMAIN source)]

\* _generator_from_cursor, and v_list of do_glom: the decoded (k, v) pairs
RECURSIVE generator_from_cursor(_, _, _)
generator_from_cursor(source, keys, i) ==
    IF i > Len(keys) THEN <<>>
    ELSE <<<<deserialize(keys[i]), deserialize(source[keys[i]])>>>>
             \o generator_from_cursor(source, keys, i + 1)

\* do_glom: the disk after the task (the loop over the source cursor, the put
\* under the last key if there was one, the commit)
do_glom(d, info, op) ==
    IF DOMAIN OpenEnv(d, OperandPath(op))[OperandPath(op)] = {}
    THEN UnaryEnvs(d, info, op)
    ELSE [UnaryEnvs(d, info, op) EXCEPT ![OperandPath(UnaryRtn(info, op))] =
             DbPut(@, cursor_last(d[OperandPath(op)]),
                   serialize_list(generator_from_cursor(d[OperandPath(op)],
                                      cursor_keys(DOMAIN d[OperandPath(op)]), 1)))]

\* the functions the control program passes to mapPartitions
RECURSIVE sum_values(_, _)
sum_values(pairs, i) ==
    IF i > Len(pairs) THEN 0 ELSE pairs[i][2] + sum_values(pairs, i + 1)

apply_partition_mapper(func, pairs) ==
    IF func = "sum_values" THEN sum_values(pairs, 1)   \* lambda it: sum(v for _, v in it)
    ELSE Len(pairs)                                    \* lambda it: len(list(it))

\* do_map_partitions: the disk after the task (the mapper call, the put under
\* cursor.key() if cursor.last() finds an entry, the commit)
do_map_partitions(d, info, op) ==
    IF DOMAIN OpenEnv(d, OperandPath(op))[OperandPath(op)] = {}
    THEN UnaryEnvs(d, info, op)
    ELSE [UnaryEnvs(d, info, op) EXCEPT ![OperandPath(UnaryRtn(info, op))] =
             DbPut(@, cursor_last(d[OperandPath(op)]),
                   serialize(apply_partition_mapper(info.func,
                       generator_from_cursor(d[OperandPath(op)],
                           cursor_keys(DOMAIN d[OperandPath(op)]), 1))))]

\* do_reduce: one round of the loop
reduce_step(func, value, v) ==
    IF value = None THEN v ELSE apply_reducer(func, value, v)

\* do_reduce: the loop over the source cursor; a reducer that raises ends it
RECURSIVE reduce_loop(_, _, _, _, _)
reduce_loop(func, value, source, keys, i) ==
    IF i > Len(keys) \/ value = Raised THEN value
    ELSE reduce_loop(func, reduce_step(func, value, deserialize(source[keys[i]])),
                     source, keys, i + 1)

reduce_cursor(func, source) == reduce_loop(func, None, source, cursor_keys(DOMAIN source), 1)

\* do_reduce: the value the task returns
do_reduce(d, info, op) ==
    reduce_cursor(info.func, OpenEnv(d, OperandPath(op))[OperandPath(op)])

\* _DTable.reduce: rs without its None, in partition order
RECURSIVE not_none(_, _)
not_none(rs, p) ==
    IF p \notin DOMAIN rs THEN <<>>
    ELSE (IF rs[p] = None THEN <<>> ELSE <<rs[p]>>) \o not_none(rs, p + 1)

\* _DTable.reduce: for r in rs[1:]: rtn = func(rtn, r)
RECURSIVE reduce_fold(_, _, _, _)
reduce_fold(func, rtn, rs, i) ==
    IF i > Len(rs) \/ rtn = Raised THEN rtn
    ELSE reduce_fold(func, apply_reducer(func, rtn, rs[i]), rs, i + 1)

reduce_result(func, rs) == IF Len(rs) <= 0 THEN None ELSE reduce_fold(func, rs[1], rs, 2)

\* _DTable.reduce: the value returned; r.result() re-raises what a task raised
reduce(func, rs) ==
    IF \E p \in DOMAIN rs : rs[p] = Raised THEN Raised
    ELSE reduce_result(func, not_none(rs, 0))

\* do_map: the loop over the source cursor, writing into the open transactions
RECURSIVE do_map_loop(_, _, _, _, _, _)
do_map_loop(txn_map, func, partitions, source, keys, i) ==
    IF i > Len(keys) THEN txn_map
    ELSE LET kv1 == apply_mapper(func, deserialize(keys[i]), deserialize(source[keys[i]]))
             k1_bytes == serialize(kv1[1])
             v1_bytes == serialize(kv1[2])
             p == hash_key_to_partition(k1_bytes, partitions)
         IN  do_map_loop([txn_map EXCEPT ![p] = DbPut(@, k1_bytes, v1_bytes)],
                         func, partitions, source, keys, i + 1)

\* ------------------------------------------------------------------------
\* Realignment of the operands of a binary operator
\* ------------------------------------------------------------------------
\* _DTable.join up to the submission of its tasks: n uuids drawn so far
RECURSIVE join_operands(_, _, _, _)
join_operands(d, self, other, n) ==
    IF other.partitions # self.partitions
    THEN IF count(d, other) > count(d, self)
         THEN LET s == save_as(d, self, uuid1(n), JobId, other.partitions)
              IN  join_operands(s.disk, s.dup, other, n + 1)
         ELSE LET s == save_as(d, other, uuid1(n), JobId, self.partitions)
              IN  join_operands(s.disk, self, s.dup, n + 1)
    ELSE [op |-> "join", disk |-> d, left |-> self, right |-> other, uuids |-> n]

\* _DTable.union up to the submission of its tasks
RECURSIVE union_operands(_, _, _, _)
union_operands(d, self, other, n) ==
    IF other.partitions # self.partitions
    THEN IF count(d, other) > count(d, self)
         THEN LET s == save_as(d, self, uuid1(n), JobId, other.partitions)
              IN  union_operands(s.disk, s.dup, other, n + 1)
         ELSE LET s == save_as(d, other, uuid1(n), JobId, self.partitions)
              IN  union_operands(s.disk, self, s.dup, n + 1)
    ELSE [op |-> "union", disk |-> d, left |-> self, right |-> other, uuids |-> n]

\* _DTable.subtractByKey up to the submission of its tasks: when other is the
\* side that is realigned, the tasks submitted are those of union
RECURSIVE subtract_operands(_, _, _, _)
subtract_operands(d, self, other, n) ==
    IF other.partitions # self.partitions
    THEN IF count(d, other) > count(d, self)
         THEN LET s == save_as(d, self, uuid1(n), JobId, other.partitions)
              IN  subtract_operands(s.disk, s.dup, other, n + 1)
         ELSE LET s == save_as(d, other, uuid1(n), JobId, self.partitions)
              IN  union_operands(s.disk, self, s.dup, n + 1)
    ELSE [op |-> "subtractByKey", disk |-> d, left |-> self, right |-> other, uuids |-> n]

\* ------------------------------------------------------------------------
\* The control program's calls
\* ------------------------------------------------------------------------
NsDir(T) == <<T.type, T.namespace>>
MetaNsDir == NsDir(MetaTable)

\* env.begin(write=True) on a lock=True environment waits for the writer lock
LockFree(paths) == paths \cap leaked = {}

\* a finished call: op(T, k, v) returned ret (Raised when it raised); every
\* call of the control program leaves its own record in `last`
Call(op, T, k, v, r) == [op |-> op, T |-> T, k |-> k, v |-> v, ret |-> r]

KeyPath(T, k) == PartPath(T, hash_key_to_partition(kv_to_bytes(k), T.partitions))

\* the state of one pool task: where it stands, the destination transactions
\* it holds open and what they have written
EmptyTxnMap == [i \in {} |-> EmptyDb]
Worker(pc, partitions, held, txn_map) ==
    [pc |-> pc, partitions |-> partitions, held |-> held, txn_map |-> txn_map]
Submitted == Worker("submitted", None, {}, EmptyTxnMap)
Done == Worker("done", None, {}, EmptyTxnMap)

\* no operator call in progress; of a call, `rs` is what the tasks of a
\* reduce returned, `prev` the call that returned before it, if any, and
\* `opened` the <<task, environment>> pairs of the transactions its tasks began
Idle ==
    [stage |-> "idle", called |-> "none", op |-> "none", func |-> "none",
     self0 |-> MetaTable, other0 |-> MetaTable, left |-> MetaTable, right |-> MetaTable,
     uuids |-> 0, func_id |-> "", workers |-> [p \in {} |-> Submitted],
     result |-> MetaTable, rs |-> [p \in {} |-> None], prev |-> <<>>,
     opened |-> {}]

\* the cache of a process that opened no environment yet
EmptyCache == [lru |-> <<>>, live |-> {}, closed |-> {}]

Init ==
    /\ disk = [path \in {} |-> EmptyDb]
    /\ namespaces = {}
    /\ handles = {}
    /\ leaked = {}
    /\ last = Call("init", MetaTable, None, None, None)
    /\ run = Idle
    /\ cache = EmptyCache

Table(name, namespace, partition, persistent) ==
    /\ LockFree({MetaPath(StoreTypeOf(persistent), namespace, name)})
    /\ disk' = table_disk(disk, name, namespace, partition, persistent)
    /\ handles' = handles \cup {table(disk, name, namespace, partition, persistent)}
    /\ last' = Call("table", DTable(StoreTypeOf(persistent), namespace, name, partition),
                     None, None, table(disk, name, namespace, partition, persistent).partitions)
    /\ namespaces' = namespaces \cup {MetaNsDir}
    /\ UNCHANGED <<leaked, run, cache>>

Put(T, k, v) ==
    /\ T \in handles
    /\ LockFree({KeyPath(T, k)})
    /\ disk' = put(disk, T, k, v)
    /\ namespaces' = namespaces \cup {NsDir(T)}
    /\ last' = Call("put", T, k, v, 1)
    /\ UNCHANGED <<handles, leaked, run, cache>>

Get(T, k) ==
    /\ T \in handles
    /\ disk' = get_disk(disk, T, kv_to_bytes(k))
    /\ namespaces' = namespaces \cup {NsDir(T)}
    /\ last' = Call("get", T, k, None, get(disk, T, k))
    /\ UNCHANGED <<handles, leaked, run, cache>>

Delete(T, k) ==
    /\ T \in handles
    /\ LockFree({KeyPath(T, k)})
    /\ disk' = delete(disk, T, k)
    /\ namespaces' = namespaces \cup {NsDir(T)}
    /\ last' = Call("delete", T, k, None, delete_ret(disk, T, k))
    /\ UNCHANGED <<handles, leaked, run, cache>>

PutIfAbsent(T, k, v) ==
    /\ T \in handles
    /\ LockFree({KeyPath(T, k)})
    /\ disk' = put_if_absent(disk, T, k, v)
    /\ namespaces' = namespaces \cup {NsDir(T)}
    /\ last' = Call("put_if_absent", T, k, v, put_if_absent_ret(disk, T, k))
    /\ UNCHANGED <<handles, leaked, run, cache>>

Count(T) ==
    /\ T \in handles
    /\ disk' = OpenEnvs(disk, PartPaths(T))
    /\ namespaces' = namespaces \cup {NsDir(T)}
    /\ last' = Call("count", T, None, None, count(disk, T))
    /\ UNCHANGED <<handles, leaked, run, cache>>

PutAll(T, kv_list) ==
    /\ T \in handles
    /\ LockFree(PartPaths(T))
    /\ disk' = put_all(disk, T, kv_list).disk
    /\ namespaces' = namespaces \cup {NsDir(T)}
    /\ leaked' = IF put_all(disk, T, kv_list).outcome = "raise"
                 THEN leaked \cup PartPaths(T) ELSE leaked
    /\ last' = Call("put_all", T, None, None,
                     IF put_all(disk, T, kv_list).outcome = "raise" THEN Raised ELSE None)
    /\ UNCHANGED <<handles, run, cache>>

\* the transactions an unwound put_all frame still referenced are collected:
\* Transaction.__del__ aborts them
ReleaseLeaked(T) ==
    /\ T \in handles
    /\ \E path \in leaked : InTableDir(path, T.type, T.namespace, T.name)
    /\ leaked' = {path \in leaked : ~InTableDir(path, T.type, T.namespace, T.name)}
    /\ UNCHANGED <<disk, namespaces, handles, last, run, cache>>

Destroy(T) ==
    /\ T \in handles
    /\ LockFree(PartPaths(T) \cup {MetaPath(T.type, T.namespace, T.name)})
    /\ disk' = destroy(disk, T)
    /\ namespaces' = namespaces \cup {NsDir(T), MetaNsDir}
    /\ leaked' = {path \in leaked : ~InTableDir(path, T.type, T.namespace, T.name)}
    /\ last' = Call("destroy", T, None, None, None)
    /\ UNCHANGED <<handles, run, cache>>

Cleanup(name, namespace, persistent) ==
    /\ IF cleanup_check(namespaces, name, namespace, persistent) = "ok"
       THEN /\ disk' = cleanup(disk, name, namespace, persistent)
            /\ leaked' = leaked \cap DOMAIN cleanup(disk, name, namespace, persistent)
            /\ last' = Call("cleanup", DTable(StoreTypeOf(persistent), namespace, name, None),
                             None, None, None)
       ELSE /\ last' = Call("cleanup", DTable(StoreTypeOf(persistent), namespace, name, None),
                             None, None, Raised)
            /\ UNCHANGED <<disk, leaked>>
    /\ UNCHANGED <<namespaces, handles, run, cache>>

Tiers == {TRUE}
Patterns == UserNames \cup {"*", ""}

\* Table life cycle: the control program creates, writes, reads, destroys and
\* cleans up tables, and keeps every handle it ever got.
Next ==
    \/ \E name \in UserNames, partition \in PartitionChoices, persistent \in Tiers :
           Table(name, UserNamespace, partition, persistent)
    \/ \E T \in handles, k \in Keys, v \in Values : Put(T, k, v)
    \/ \E T \in handles, k \in Keys : Get(T, k)
    \/ \E T \in handles, k \in Keys : Delete(T, k)
    \/ \E T \in handles : Destroy(T)
    \/ \E name \in Patterns, persistent \in Tiers :
           Cleanup(name, UserNamespace, persistent)

Spec == Init /\ [][Next]_vars

\* The state right after Standalone() and one table("a", "ns", partition) call
InitTable ==
    \E partition \in PartitionChoices :
        /\ disk = table_disk([path \in {} |-> EmptyDb], "a", UserNamespace, partition, TRUE)
        /\ namespaces = {MetaNsDir}
        /\ handles = {table([path \in {} |-> EmptyDb], "a", UserNamespace, partition, TRUE)}
        /\ leaked = {}
        /\ last = Call("table", DTable("LMDB", UserNamespace, "a", partition),
                       None, None, partition)
        /\ run = Idle
        /\ cache = EmptyCache

\* Point operations on one table through its handle
NextKv ==
    \/ \E T \in handles, k \in Keys, v \in Values : Put(T, k, v)
    \/ \E T \in handles, k \in Keys : Get(T, k)
    \/ \E T \in handles, k \in Keys : Delete(T, k)
    \/ \E T \in handles, k \in Keys, v \in Values : PutIfAbsent(T, k, v)
    \/ \E T \in handles : Count(T)

SpecKv == InitTable /\ [][NextKv]_vars

MaxItems == 2
Items == {PairItem(k, v) : k \in Keys, v \in Values}
             \cup {BadPairItem, NotAPairItem, IterErrorItem}
KvLists == UNION {[1..n -> Items] : n \in 0..MaxItems}

\* Bulk ingest into one table
NextPutAll ==
    \/ \E T \in handles, kv_list \in KvLists : PutAll(T, kv_list)
    \/ \E T \in handles : ReleaseLeaked(T)
    \/ \E T \in handles, k \in Keys : Get(T, k)

SpecPutAll == InitTable /\ [][NextPutAll]_vars

\* ------------------------------------------------------------------------
\* The data-parallel operators
\* ------------------------------------------------------------------------
\* the call in progress once its tasks are submitted to the pool
Running(called, func, self, other, o) ==
    [stage |-> "tasks", called |-> called, op |-> o.op,
     func |-> IF o.op = called THEN func ELSE "first",
     self0 |-> self, other0 |-> other, left |-> o.left, right |-> o.right,
     uuids |-> o.uuids + 1, func_id |-> uuid1(o.uuids),
     workers |-> [p \in 0..(o.left.partitions - 1) |-> Submitted],
     result |-> MetaTable, rs |-> Idle.rs, prev |-> Idle.prev,
     opened |-> Idle.opened]

\* the directory of partition p of the table the tasks of the call write
DstPath(p) == <<"IN_MEMORY", JobId, run.func_id, p>>

\* the task info the pool tasks of the call receive
RunInfo == TaskInfo(JobId, run.func_id, run.func)

\* an environment opened with lock=False: nothing holds a writer back
WriterLockDisabled(path) == TRUE

\* env.begin(write=True) on a lock=True environment returns once no other
\* write transaction of the environment is open
WriterLockFree(path) ==
    /\ path \notin leaked
    /\ \A q \in DOMAIN run.workers : \A i \in run.workers[q].held : DstPath(i) # path

\* the tables the control program created by name
BaseTables == {T \in handles : T.namespace = UserNamespace}

BinaryCall(called, func, self, other, o) ==
    /\ run.stage = "idle"
    /\ self \in BaseTables /\ other \in BaseTables
    /\ ~SameTable(self, other)
    /\ disk' = o.disk
    /\ handles' = handles \cup {o.left, o.right}
    /\ namespaces' = namespaces \cup {NsDir(o.left), NsDir(o.right)}
    /\ run' = Running(called, func, self, other, o)
    /\ UNCHANGED <<leaked, last, cache>>

Join(self, other, func) ==
    BinaryCall("join", func, self, other, join_operands(disk, self, other, 0))

Union(self, other, func) ==
    BinaryCall("union", func, self, other, union_operands(disk, self, other, 0))

SubtractByKey(self, other) ==
    BinaryCall("subtractByKey", "none", self, other, subtract_operands(disk, self, other, 0))

\* one pool task of a binary operator, on partition p of both operands
BinaryTask(op, p, d) ==
    /\ run.stage = "tasks"
    /\ run.op = op
    /\ p \in DOMAIN run.workers
    /\ run.workers[p].pc = "submitted"
    /\ WriterLockFree(DstPath(p))
    /\ disk' = d
    /\ namespaces' = namespaces \cup {<<"IN_MEMORY", JobId>>}
    /\ run' = [run EXCEPT !.workers[p] = Done,
                  !.opened = @ \cup {<<p, PartPath(run.left, p)>>,
                                     <<p, PartPath(run.right, p)>>, <<p, DstPath(p)>>}]
    /\ UNCHANGED <<handles, leaked, last, cache>>

DoJoin(p) ==
    BinaryTask("join", p,
        do_join(disk, RunInfo, OperandOf(run.left, p), OperandOf(run.right, p)))

DoUnion(p) ==
    BinaryTask("union", p,
        do_union(disk, RunInfo, OperandOf(run.left, p), OperandOf(run.right, p)))

DoSubtractByKey(p) ==
    BinaryTask("subtractByKey", p,
        do_subtract_by_key(disk, RunInfo, OperandOf(run.left, p), OperandOf(run.right, p)))

\* a do_map task that begins with the destination partition of its own index
begin_order_from_own(p, n, partitions) == (p + n) % partitions

\* do_map: `for p in range(partitions)`: the partition on which a task
\* begins its n-th write transaction (n from 0)
begin_order(p, n, partitions) == n

\* _DTable.map: the tasks are submitted
Map(self, func) ==
    /\ run.stage = "idle"
    /\ self \in BaseTables
    /\ run' = [Idle EXCEPT !.stage = "tasks", !.called = "map", !.op = "map",
                  !.func = func, !.self0 = self, !.left = self,
                  !.uuids = 1, !.func_id = uuid1(0),
                  !.workers = [p \in 0..(self.partitions - 1) |-> Submitted]]
    /\ UNCHANGED <<disk, namespaces, handles, leaked, last, cache>>

\* do_map: the next destination transaction is begun
DoMapBegin(p) ==
    /\ run.stage = "tasks" /\ run.op = "map"
    /\ p \in DOMAIN run.workers
    /\ run.workers[p].pc \in {"submitted", "begin"}
    /\ LET w == run.workers[p]
           partitions == IF w.pc = "submitted"
                         THEN MetaCount(disk, run.left.type, run.left.namespace,
                                        run.left.name)
                         ELSE w.partitions
           n == Cardinality(w.held)
           i == begin_order(p, n, partitions)
           d1 == OpenEnvs(disk, {PartPath(run.left, p), DstPath(i)})
       IN  /\ partitions # None
           /\ WriterLockFree(DstPath(i))
           /\ disk' = d1
           /\ run' = [run EXCEPT !.workers[p] =
                         Worker(IF n + 1 = partitions THEN "process" ELSE "begin",
                                partitions, w.held \cup {i},
                                [j \in DOMAIN w.txn_map \cup {i} |->
                                    IF j = i THEN d1[DstPath(i)] ELSE w.txn_map[j]]),
                         !.opened = @ \cup {<<p, DstPath(i)>>} \cup
                             (IF w.pc = "submitted"
                              THEN {<<p, MetaPath(run.left.type, run.left.namespace,
                                                  run.left.name)>>}
                              ELSE {})]
    /\ namespaces' = namespaces \cup {<<"IN_MEMORY", JobId>>, NsDir(run.left)}
    /\ UNCHANGED <<handles, leaked, last, cache>>

\* do_map: the source cursor is consumed
DoMapProcess(p) ==
    /\ run.stage = "tasks" /\ run.op = "map"
    /\ p \in DOMAIN run.workers
    /\ run.workers[p].pc = "process"
    /\ LET w == run.workers[p]
           source == PartitionDb(disk, run.left, p)
       IN  /\ ~do_map_raises(run.func, source)
           /\ run' = [run EXCEPT !.workers[p] =
                      Worker("commit", w.partitions, w.held,
                             do_map_loop(w.txn_map, run.func, w.partitions, source,
                                         cursor_keys(DOMAIN source), 1)),
                      !.opened = @ \cup {<<p, PartPath(run.left, p)>>}]
    /\ UNCHANGED <<disk, namespaces, handles, leaked, last, cache>>

\* do_map: the next destination transaction is committed
DoMapCommit(p) ==
    /\ run.stage = "tasks" /\ run.op = "map"
    /\ p \in DOMAIN run.workers
    /\ run.workers[p].pc = "commit"
    /\ LET w == run.workers[p]
           i == CHOOSE x \in w.held : \A y \in w.held : x <= y
       IN  /\ disk' = [disk EXCEPT ![DstPath(i)] = w.txn_map[i]]
           /\ run' = [run EXCEPT !.workers[p] =
                         Worker(IF w.held = {i} THEN "done" ELSE "commit",
                                w.partitions, w.held \ {i}, w.txn_map)]
    /\ UNCHANGED <<namespaces, handles, leaked, last, cache>>

\* r.result() of every task, then the derived table is registered
AwaitResults ==
    /\ run.stage = "tasks"
    /\ \A p \in DOMAIN run.workers : run.workers[p].pc = "done"
    /\ disk' = table_disk(disk, run.func_id, JobId, run.left.partitions, FALSE)
    /\ handles' = handles \cup {table(disk, run.func_id, JobId, run.left.partitions, FALSE)}
    /\ namespaces' = namespaces \cup {MetaNsDir}
    /\ run' = [run EXCEPT !.stage = "returned",
                  !.result = table(disk, run.func_id, JobId, run.left.partitions, FALSE)]
    /\ last' = Call(run.called, run.self0, None, None, None)
    /\ UNCHANGED <<leaked, cache>>

OpKeys == 1..MaxOpKey
LeftValue(k) == k
RightValue(k) == 10 + k

\* the pairs (k, value(k)) of the keys from k on that are in S
RECURSIVE PairsFrom(_, _, _)
PairsFrom(S, k, right) ==
    IF k > MaxOpKey THEN <<>>
    ELSE (IF k \in S
          THEN <<PairItem(k, IF right THEN RightValue(k) ELSE LeftValue(k))>>
          ELSE <<>>) \o PairsFrom(S, k + 1, right)

\* table(name, "ns", partition) followed by put_all of the keys S
Loaded(d, name, partition, S, right) ==
    put_all(table_disk(d, name, UserNamespace, partition, TRUE),
            table(d, name, UserNamespace, partition, TRUE),
            PairsFrom(S, 1, right)).disk

\* two loaded tables a and b
InitOps ==
    \E Na \in PartitionChoices, Nb \in PartitionChoices,
       Ka \in SUBSET OpKeys, Kb \in SUBSET OpKeys :
        /\ disk = Loaded(Loaded([path \in {} |-> EmptyDb], "a", Na, Ka, FALSE),
                         "b", Nb, Kb, TRUE)
        /\ namespaces = {MetaNsDir, <<"LMDB", UserNamespace>>}
        /\ handles = {DTable("LMDB", UserNamespace, "a", Na),
                      DTable("LMDB", UserNamespace, "b", Nb)}
        /\ leaked = {}
        /\ last = Call("put_all", DTable("LMDB", UserNamespace, "b", Nb), None, None, None)
        /\ run = Idle
        /\ cache = EmptyCache

Joiners == {"concat"}
Mergers == {"first", "concat"}
Mappers == {"shift", "mirror"}

\* One binary operator call on two tables
NextOps ==
    \/ \E self \in handles, other \in handles, func \in Joiners : Join(self, other, func)
    \/ \E self \in handles, other \in handles, func \in Mergers : Union(self, other, func)
    \/ \E self \in handles, other \in handles : SubtractByKey(self, other)
    \/ \E p \in DOMAIN run.workers : DoJoin(p)
    \/ \E p \in DOMAIN run.workers : DoUnion(p)
    \/ \E p \in DOMAIN run.workers : DoSubtractByKey(p)
    \/ AwaitResults

SpecOps == InitOps /\ [][NextOps]_vars

\* one loaded table a
InitMap ==
    \E Na \in PartitionChoices, Ka \in SUBSET OpKeys :
        /\ disk = Loaded([path \in {} |-> EmptyDb], "a", Na, Ka, FALSE)
        /\ namespaces = {MetaNsDir, <<"LMDB", UserNamespace>>}
        /\ handles = {DTable("LMDB", UserNamespace, "a", Na)}
        /\ leaked = {}
        /\ last = Call("put_all", DTable("LMDB", UserNamespace, "a", Na), None, None, None)
        /\ run = Idle
        /\ cache = EmptyCache

\* One map call, its tasks running in the processes of the pool
NextMap ==
    \/ \E self \in handles, func \in Mappers : Map(self, func)
    \/ \E p \in DOMAIN run.workers : DoMapBegin(p)
    \/ \E p \in DOMAIN run.workers : DoMapProcess(p)
    \/ \E p \in DOMAIN run.workers : DoMapCommit(p)
    \/ AwaitResults

SpecMap == InitMap /\ [][NextMap]_vars

\* ------------------------------------------------------------------------
\* The unary operators
\* ------------------------------------------------------------------------
\* what a later call of the run keeps of the call that returned
Returned == [called |-> run.called, func |-> run.func, self0 |-> run.self0,
             result |-> run.result]

\* _submit_to_pool: one task per partition of self
UnaryCall(called, func, self) ==
    /\ self \in BaseTables
    /\ run' = [Idle EXCEPT !.stage = "tasks", !.called = called, !.op = called,
                  !.func = func, !.self0 = self, !.left = self,
                  !.uuids = run.uuids + 1, !.func_id = uuid1(run.uuids),
                  !.workers = [p \in 0..(self.partitions - 1) |-> Submitted],
                  !.prev = IF run.stage = "returned" THEN <<Returned>> ELSE <<>>]
    /\ UNCHANGED <<disk, namespaces, handles, leaked, last, cache>>

MapValues(self, func) == run.stage = "idle" /\ UnaryCall("mapValues", func, self)

Filter(self, func) == run.stage = "idle" /\ UnaryCall("filter", func, self)

\* sample(fraction, seed), once or twice in a run
Sample(self, fraction, seed) ==
    /\ \/ run.stage = "idle"
       \/ run.stage = "returned" /\ run.called = "sample" /\ run.prev = <<>>
    /\ UnaryCall("sample", <<fraction, seed>>, self)

\* one pool task of a unary operator, on partition p of self
UnaryTask(op, p, d) ==
    /\ run.stage = "tasks"
    /\ run.op = op
    /\ p \in DOMAIN run.workers
    /\ run.workers[p].pc = "submitted"
    /\ WriterLockFree(DstPath(p))
    /\ disk' = d
    /\ namespaces' = namespaces \cup {<<"IN_MEMORY", JobId>>}
    /\ run' = [run EXCEPT !.workers[p] = Done,
                  !.opened = @ \cup {<<p, PartPath(run.left, p)>>, <<p, DstPath(p)>>}]
    /\ UNCHANGED <<handles, leaked, last, cache>>

DoMapValues(p) ==
    /\ run.op = "mapValues"
    /\ ~do_map_values_raises(run.func, PartitionDb(disk, run.left, p))
    /\ UnaryTask("mapValues", p, do_map_values(disk, RunInfo, OperandOf(run.left, p)))

DoFilter(p) ==
    UnaryTask("filter", p, do_filter(disk, RunInfo, OperandOf(run.left, p)))

DoSample(p) ==
    /\ run.op = "sample"
    /\ \E draws \in RandomStreams(run.func[2]) :
           UnaryTask("sample", p, do_sample(disk, RunInfo, OperandOf(run.left, p), draws))


\* _DTable.mapPartitions and _DTable.glom: the tasks are submitted
MapPartitions(self, func) == run.stage = "idle" /\ UnaryCall("mapPartitions", func, self)

Glom(self) == run.stage = "idle" /\ UnaryCall("glom", None, self)

DoMapPartitions(p) ==
    UnaryTask("mapPartitions", p, do_map_partitions(disk, RunInfo, OperandOf(run.left, p)))

DoGlom(p) ==
    UnaryTask("glom", p, do_glom(disk, RunInfo, OperandOf(run.left, p)))

ValueMappers == {"tenfold", "succ"}
PartitionMappers == {"sum_values", "length"}
KeyFilters == {"odd", "above_one"}
Fractions == {0, RandUnit \div 2, RandUnit}
Seeds == DOMAIN RandomState \cup {None}

\* One mapValues, filter or sample call on a loaded table, and a second sample
NextUnary ==
    \/ \E self \in handles, func \in ValueMappers : MapValues(self, func)
    \/ \E self \in handles, func \in KeyFilters : Filter(self, func)
    \/ \E self \in handles, fraction \in Fractions, seed \in Seeds :
           Sample(self, fraction, seed)
    \/ \E p \in DOMAIN run.workers : DoMapValues(p)
    \/ \E p \in DOMAIN run.workers : DoFilter(p)
    \/ \E p \in DOMAIN run.workers : DoSample(p)
    \/ AwaitResults

SpecUnary == InitMap /\ [][NextUnary]_vars

\* ------------------------------------------------------------------------
\* reduce
\* ------------------------------------------------------------------------
Reduce(self, func) == run.stage = "idle" /\ UnaryCall("reduce", func, self)

\* one do_reduce task: r.result() is what it returned or raised
DoReduce(p) ==
    /\ run.stage = "tasks" /\ run.op = "reduce"
    /\ p \in DOMAIN run.workers
    /\ run.workers[p].pc = "submitted"
    /\ disk' = OpenEnv(disk, PartPath(run.left, p))
    /\ run' = [run EXCEPT !.workers[p] = Done,
                  !.opened = @ \cup {<<p, PartPath(run.left, p)>>},
                  !.rs = [q \in DOMAIN run.rs \cup {p} |->
                             IF q = p
                             THEN do_reduce(disk, RunInfo, OperandOf(run.left, p))
                             ELSE run.rs[q]]]
    /\ UNCHANGED <<namespaces, handles, leaked, last, cache>>

\* the results of the tasks are folded and reduce returns
ReduceResults ==
    /\ run.stage = "tasks" /\ run.op = "reduce"
    /\ \A p \in DOMAIN run.workers : run.workers[p].pc = "done"
    /\ run' = [run EXCEPT !.stage = "returned"]
    /\ last' = Call("reduce", run.self0, None, None, reduce(run.func, run.rs))
    /\ UNCHANGED <<disk, namespaces, handles, leaked, cache>>

\* the pairs of the keys from k on that are in S, with None for those in Nulls
RECURSIVE PairsWithNone(_, _, _)
PairsWithNone(S, Nulls, k) ==
    IF k > MaxOpKey THEN <<>>
    ELSE (IF k \in S
          THEN <<PairItem(k, IF k \in Nulls THEN None ELSE LeftValue(k))>>
          ELSE <<>>) \o PairsWithNone(S, Nulls, k + 1)

\* one table a, loaded with ints and None
InitReduce ==
    \E Na \in PartitionChoices, Ka \in SUBSET OpKeys :
        \E Nulls \in SUBSET Ka :
            /\ disk = put_all(table_disk([path \in {} |-> EmptyDb], "a", UserNamespace,
                                         Na, TRUE),
                              DTable("LMDB", UserNamespace, "a", Na),
                              PairsWithNone(Ka, Nulls, 1)).disk
            /\ namespaces = {MetaNsDir, <<"LMDB", UserNamespace>>}
            /\ handles = {DTable("LMDB", UserNamespace, "a", Na)}
            /\ leaked = {}
            /\ last = Call("put_all", DTable("LMDB", UserNamespace, "a", Na),
                           None, None, None)
            /\ run = Idle
            /\ cache = EmptyCache

Reducers == {"add", "max"}

\* One reduce call on a loaded table
NextReduce ==
    \/ \E self \in handles, func \in Reducers : Reduce(self, func)
    \/ \E p \in DOMAIN run.workers : DoReduce(p)
    \/ ReduceResults

SpecReduce == InitReduce /\ [][NextReduce]_vars

\* ------------------------------------------------------------------------
\* count and collect on tables that are written and derived
\* ------------------------------------------------------------------------
\* list(T.collect())
Collect(T) ==
    /\ T \in handles
    /\ disk' = OpenEnvs(disk, PartPaths(T))
    /\ namespaces' = namespaces \cup {NsDir(T)}
    /\ last' = Call("collect", T, None, None, collect(disk, T))
    /\ UNCHANGED <<handles, leaked, run, cache>>

\* the lists of MaxItems pairs
PairLists == [1..MaxItems -> {PairItem(k, v) : k \in Keys, v \in Values}]

\* Point operations, put_all, count and collect on one table, one mapValues
\* or filter call on it, and the same on the table that call returns
NextCollect ==
    \/ \E T \in handles, k \in Keys, v \in Values : Put(T, k, v)
    \/ \E T \in handles, k \in Keys : Delete(T, k)
    \/ \E T \in handles, k \in Keys, v \in Values : PutIfAbsent(T, k, v)
    \/ \E T \in handles, kv_list \in PairLists : PutAll(T, kv_list)
    \/ \E T \in handles : Count(T)
    \/ \E T \in handles : Collect(T)
    \/ \E self \in handles, func \in ValueMappers : MapValues(self, func)
    \/ \E self \in handles, func \in KeyFilters : Filter(self, func)
    \/ \E p \in DOMAIN run.workers : DoMapValues(p)
    \/ \E p \in DOMAIN run.workers : DoFilter(p)
    \/ AwaitResults

SpecCollect == InitTable /\ [][NextCollect]_vars

\* ------------------------------------------------------------------------
\* destroy among several tables
\* ------------------------------------------------------------------------
TableNames == {"a", "b"}

\* Two loaded tables: either is read, destroyed and registered again
NextDestroy ==
    \/ \E T \in handles : Destroy(T)
    \/ \E T \in handles, k \in OpKeys : Get(T, k)
    \/ \E name \in TableNames, partition \in PartitionChoices :
           Table(name, UserNamespace, partition, TRUE)

SpecDestroy == InitOps /\ [][NextDestroy]_vars

\* ------------------------------------------------------------------------
\* The hasher on its own
\* ------------------------------------------------------------------------
\* the key bytes and the partition counts the hasher is called with
HashKeys == DOMAIN Sha1Digest
HashCounts == -1..MetaPartitions

\* one call _hash_key_to_partition(key, partitions); the calls of one run
\* are about one key
HashKey(key, partitions) ==
    /\ IF last.op = "init" THEN TRUE ELSE last.k = key
    /\ last' = Call("hash", MetaTable, key, partitions,
                     hash_key_to_partition(key, partitions))
    /\ UNCHANGED <<disk, namespaces, handles, leaked, run, cache>>

NextHash == \E key \in HashKeys, partitions \in HashCounts : HashKey(key, partitions)

SpecHash == Init /\ [][NextHash]_vars

\* ------------------------------------------------------------------------
\* cleanup among tables of several namespaces and tiers
\* ------------------------------------------------------------------------
\* the (name, namespace, persistent) of the tables the control program creates
CleanupTables ==
    {<<"a", "ns", TRUE>>, <<"b", "ns", TRUE>>, <<"a", "ns", FALSE>>, <<"u1", "job", TRUE>>}
CleanupNames == {"a", "u1", "*", ""}
\* the partition counts they are created with
CleanupPartitions(t) == IF t[2] = "ns" /\ t[3] THEN PartitionChoices ELSE {1}
CleanupNamespaces == {"ns", "job", ""}

\* Tables of two namespaces and both tiers are created and written, and
\* cleanup is called with plain names, the pattern "*" and blank arguments
NextCleanup ==
    \/ \E t \in CleanupTables :
           \E partition \in CleanupPartitions(t) : Table(t[1], t[2], partition, t[3])
    \/ \E T \in handles : Put(T, 1, 1)
    \/ \E name \in CleanupNames, namespace \in CleanupNamespaces, persistent \in BOOLEAN :
           Cleanup(name, namespace, persistent)

SpecCleanup == Init /\ [][NextCleanup]_vars

\* ------------------------------------------------------------------------
\* Every operator on two loaded tables
\* ------------------------------------------------------------------------
\* two loaded tables: a with any keys, b with every key but the first
InitPool ==
    \E Na \in PartitionChoices, Nb \in PartitionChoices, Ka \in SUBSET OpKeys :
        /\ disk = Loaded(Loaded([path \in {} |-> EmptyDb], "a", Na, Ka, FALSE),
                         "b", Nb, OpKeys \ {1}, TRUE)
        /\ namespaces = {MetaNsDir, <<"LMDB", UserNamespace>>}
        /\ handles = {DTable("LMDB", UserNamespace, "a", Na),
                      DTable("LMDB", UserNamespace, "b", Nb)}
        /\ leaked = {}
        /\ last = Call("put_all", DTable("LMDB", UserNamespace, "b", Nb), None, None, None)
        /\ run = Idle
        /\ cache = EmptyCache

\* One operator call on two loaded tables, its tasks running in the
\* processes of the pool
NextPool ==
    \/ \E self \in handles, other \in handles, func \in Joiners : Join(self, other, func)
    \/ \E self \in handles, other \in handles, func \in Mergers : Union(self, other, func)
    \/ \E self \in handles, other \in handles : SubtractByKey(self, other)
    \/ \E self \in handles, func \in Mappers : Map(self, func)
    \/ \E self \in handles, func \in ValueMappers : MapValues(self, func)
    \/ \E self \in handles, func \in KeyFilters : Filter(self, func)
    \/ \E self \in handles, fraction \in Fractions, seed \in Seeds :
           Sample(self, fraction, seed)
    \/ \E self \in handles : Glom(self)
    \/ \E self \in handles, func \in PartitionMappers : MapPartitions(self, func)
    \/ \E self \in handles, func \in Reducers : Reduce(self, func)
    \/ \E p \in DOMAIN run.workers : DoJoin(p)
    \/ \E p \in DOMAIN run.workers : DoUnion(p)
    \/ \E p \in DOMAIN run.workers : DoSubtractByKey(p)
    \/ \E p \in DOMAIN run.workers : DoMapBegin(p)
    \/ \E p \in DOMAIN run.workers : DoMapProcess(p)
    \/ \E p \in DOMAIN run.workers : DoMapCommit(p)
    \/ \E p \in DOMAIN run.workers : DoMapValues(p)
    \/ \E p \in DOMAIN run.workers : DoFilter(p)
    \/ \E p \in DOMAIN run.workers : DoSample(p)
    \/ \E p \in DOMAIN run.workers : DoGlom(p)
    \/ \E p \in DOMAIN run.workers : DoMapPartitions(p)
    \/ \E p \in DOMAIN run.workers : DoReduce(p)
    \/ run.op # "reduce" /\ AwaitResults
    \/ ReduceResults

SpecPool == InitPool /\ [][NextPool]_vars

\* ------------------------------------------------------------------------
\* Tasks that raise
\* ------------------------------------------------------------------------
\* do_map: the mapper raises; the frame of do_map unwinds without a commit or
\* an abort, its transactions stay open
DoMapRaise(p) ==
    /\ run.stage = "tasks" /\ run.op = "map"
    /\ p \in DOMAIN run.workers
    /\ run.workers[p].pc = "process"
    /\ do_map_raises(run.func, PartitionDb(disk, run.left, p))
    /\ run' = [run EXCEPT !.workers[p].pc = "failed",
                  !.opened = @ \cup {<<p, PartPath(run.left, p)>>}]
    /\ UNCHANGED <<disk, namespaces, handles, leaked, last, cache>>

\* the pool process drops its references to the frame that raised: the
\* transactions of txn_map are deallocated, which aborts them
DoMapRelease(p) ==
    /\ p \in DOMAIN run.workers
    /\ run.workers[p].pc = "failed"
    /\ run.workers[p].held # {}
    /\ run' = [run EXCEPT !.workers[p].held = {}, !.workers[p].txn_map = EmptyTxnMap]
    /\ UNCHANGED <<disk, namespaces, handles, leaked, last, cache>>

\* do_map_values: the mapper raises inside `with dst_env.begin(write=True)`,
\* which aborts the transaction
DoMapValuesRaise(p) ==
    /\ run.stage = "tasks" /\ run.op = "mapValues"
    /\ p \in DOMAIN run.workers
    /\ run.workers[p].pc = "submitted"
    /\ WriterLockFree(DstPath(p))
    /\ do_map_values_raises(run.func, PartitionDb(disk, run.left, p))
    /\ disk' = UnaryEnvs(disk, RunInfo, OperandOf(run.left, p))
    /\ namespaces' = namespaces \cup {<<"IN_MEMORY", JobId>>}
    /\ run' = [run EXCEPT !.workers[p].pc = "failed",
                  !.opened = @ \cup {<<p, PartPath(run.left, p)>>, <<p, DstPath(p)>>}]
    /\ UNCHANGED <<handles, leaked, last, cache>>

\* `for r in results: result = r.result()`: the first task, in the order of
\* the partitions, that raised is reached and r.result() raises its error
AwaitRaises ==
    /\ run.stage = "tasks"
    /\ \E p \in DOMAIN run.workers :
           /\ run.workers[p].pc = "failed"
           /\ \A q \in 0..(p - 1) : run.workers[q].pc = "done"
    /\ run' = [run EXCEPT !.stage = "raised"]
    /\ last' = Call(run.called, run.self0, None, None, Raised)
    /\ UNCHANGED <<disk, namespaces, handles, leaked, cache>>

FailingMappers == {"mirror", "mirror_strict"}
FailingValueMappers == {"succ", "succ_strict"}

\* One map or mapValues call whose function may raise
NextFail ==
    \/ \E self \in handles, func \in FailingMappers : Map(self, func)
    \/ \E self \in handles, func \in FailingValueMappers : MapValues(self, func)
    \/ \E p \in DOMAIN run.workers : DoMapBegin(p)
    \/ \E p \in DOMAIN run.workers : DoMapProcess(p)
    \/ \E p \in DOMAIN run.workers : DoMapRaise(p)
    \/ \E p \in DOMAIN run.workers : DoMapRelease(p)
    \/ \E p \in DOMAIN run.workers : DoMapCommit(p)
    \/ \E p \in DOMAIN run.workers : DoMapValues(p)
    \/ \E p \in DOMAIN run.workers : DoMapValuesRaise(p)
    \/ AwaitResults
    \/ AwaitRaises

\* Every pool task that can take its next step takes it, and so does the
\* control program waiting for the results; nothing makes a pool process drop
\* the frame of a task that raised
FairFail ==
    /\ \A p \in 0..(MaxPart - 1) :
           /\ WF_vars(DoMapBegin(p))
           /\ WF_vars(DoMapProcess(p))
           /\ WF_vars(DoMapRaise(p))
           /\ WF_vars(DoMapCommit(p))
           /\ WF_vars(DoMapValues(p))
           /\ WF_vars(DoMapValuesRaise(p))
    /\ WF_vars(AwaitResults)
    /\ WF_vars(AwaitRaises)

SpecFail == InitMap /\ [][NextFail]_vars /\ FairFail


\* ------------------------------------------------------------------------
\* A map call whose tasks are scheduled: a task that can take its next step
\* (its pool process runs; the writer lock it waits for is free) eventually
\* takes it, and map() returns once every result is there
\* ------------------------------------------------------------------------
FairMap ==
    /\ \A p \in 0..(MaxPart - 1) :
           /\ WF_vars(DoMapBegin(p))
           /\ WF_vars(DoMapProcess(p))
           /\ WF_vars(DoMapCommit(p))
    /\ WF_vars(AwaitResults)

SpecMapLive == InitMap /\ [][NextMap]_vars /\ FairMap


\* ------------------------------------------------------------------------
\* One glom or mapPartitions call on a loaded table
\* ------------------------------------------------------------------------
NextPartitions ==
    \/ \E self \in handles : Glom(self)
    \/ \E self \in handles, func \in PartitionMappers : MapPartitions(self, func)
    \/ \E p \in DOMAIN run.workers : DoGlom(p)
    \/ \E p \in DOMAIN run.workers : DoMapPartitions(p)
    \/ AwaitResults

SpecPartitions == InitMap /\ [][NextPartitions]_vars


\* ------------------------------------------------------------------------
\* The environment cache
\* ------------------------------------------------------------------------
\* maxsize of the cache of _open_env
CacheMaxsize == 64

\* the key cachetools.cached computes for _open_env(path, write=write)
EnvKey(path, write) == <<path, write>>

\* EvictLRUCache: a hit makes the key the most recently used one
lru_hit(lru, key) == SelectSeq(lru, LAMBDA k : k # key) \o <<key>>

\* EvictLRUCache: the key whose value is evicted to make room, if the cache
\* is full, and the cache once the new key is stored
lru_evicted(lru) == IF Len(lru) >= CacheMaxsize THEN {Head(lru)} ELSE {}

lru_store(lru, key) ==
    (IF Len(lru) >= CacheMaxsize THEN Tail(lru) ELSE lru) \o <<key>>

\* _open_env behind @cached: the cached environment on a hit; on a miss a
\* new one, _evict closing the evicted environment, whatever is using it
open_env(c, key) ==
    IF \E i \in 1..Len(c.lru) : c.lru[i] = key
    THEN [c EXCEPT !.lru = lru_hit(@, key)]
    ELSE [c EXCEPT !.lru = lru_store(@, key),
                   !.closed = @ \cup (lru_evicted(c.lru) \cap c.live)]

\* put_all and collect on tables of up to CacheMaxsize + 1 partitions
CachePartitions == {1, CacheMaxsize - 1, CacheMaxsize, CacheMaxsize + 1}

\* The state right after Standalone() and one table("a", "ns", partition)
\* call, which opened a meta registry environment in put_if_absent
\* (write=True) and in get (write=False)
InitCache ==
    \E partition \in CachePartitions :
        /\ disk = table_disk([path \in {} |-> EmptyDb], "a", UserNamespace, partition, TRUE)
        /\ namespaces = {MetaNsDir}
        /\ handles = {table([path \in {} |-> EmptyDb], "a", UserNamespace, partition, TRUE)}
        /\ leaked = {}
        /\ last = Call("table", DTable("LMDB", UserNamespace, "a", partition),
                       None, None, partition)
        /\ run = Idle
        /\ cache = open_env(open_env(EmptyCache,
                       EnvKey(MetaPath("LMDB", UserNamespace, "a"), TRUE)),
                       EnvKey(MetaPath("LMDB", UserNamespace, "a"), FALSE))

\* T.put_all([]) or T.collect() is called
CacheCall(called, T) ==
    /\ run.stage = "idle"
    /\ T \in handles
    /\ run' = [Idle EXCEPT !.stage = "begin", !.called = called, !.self0 = T]
    /\ UNCHANGED <<disk, namespaces, handles, leaked, last, cache>>

\* put_all, collect: one round of the loop over range(self._partitions), the
\* environment of the next partition is fetched and a transaction begun on it
CacheBegin ==
    /\ run.stage = "begin"
    /\ disk' = OpenEnv(disk, PartPath(run.self0, Cardinality(cache.live)))
    /\ namespaces' = namespaces \cup {NsDir(run.self0)}
    /\ cache' = [open_env(cache,
                     EnvKey(PartPath(run.self0, Cardinality(cache.live)),
                            run.called = "put_all"))
                     EXCEPT !.live = @ \cup
                         {EnvKey(PartPath(run.self0, Cardinality(cache.live)),
                                 run.called = "put_all")}]
    /\ run' = [run EXCEPT !.stage =
                  IF Cardinality(cache.live) + 1 = run.self0.partitions
                  THEN "end" ELSE "begin"]
    /\ UNCHANGED <<handles, leaked, last>>

\* put_all: every transaction is committed; collect: the generator is
\* exhausted and its cursors and transactions are dropped
CacheEnd ==
    /\ run.stage = "end"
    /\ cache' = [cache EXCEPT !.live = {}]
    /\ run' = Idle
    /\ last' = Call(run.called, run.self0, None, None,
                    IF run.called = "collect" THEN <<>> ELSE None)
    /\ UNCHANGED <<disk, namespaces, handles, leaked>>

NextCache ==
    \/ \E called \in {"put_all", "collect"}, T \in handles : CacheCall(called, T)
    \/ CacheBegin
    \/ CacheEnd

SpecCache == InitCache /\ [][NextCache]_vars

\* ------------------------------------------------------------------------
\* Observations the properties are stated in
\* ------------------------------------------------------------------------


\* what the partitions of T hold, partition by partition
TableContent(d, T) == [p \in 0..(T.partitions - 1) |-> PartitionDb(d, T, p)]

\* the key bytes stored in any partition of T
StoredKeys(d, T) == UNION {DOMAIN PartitionDb(d, T, p) : p \in 0..(T.partitions - 1)}

Present(d, T, k) == kv_to_bytes(k) \in StoredKeys(d, T)

\* the value stored under k, wherever in T it lies
StoredValue(d, T, k) ==
    LET p == CHOOSE q \in 0..(T.partitions - 1) :
                 kv_to_bytes(k) \in DOMAIN PartitionDb(d, T, q)
    IN  deserialize(PartitionDb(d, T, p)[kv_to_bytes(k)])

\* ------------------------------------------------------------------------
\* C1
\* ------------------------------------------------------------------------
\* C1: the first table(name, ns, N, persistent) call records N in the meta
\* registry; from then on, as long as no destroy of that table happens, every
\* step leaves the registry entry at N, and every table(name, ns, M, persistent)
\* call, whatever M, returns a handle whose partition count is N.
C1_FirstWriterWins ==
    [][\A name \in UserNames, persistent \in Tiers :
         LET type == StoreTypeOf(persistent)
             N == MetaCount(disk, type, UserNamespace, name)
         IN  /\ \A M \in PartitionChoices :
                    (last'.op = "table" /\ Table(name, UserNamespace, M, persistent)) =>
                        /\ N = None =>
                               /\ MetaCount(disk', type, UserNamespace, name) = M
                               /\ last'.ret = M
                        /\ N # None =>
                               /\ last'.ret = N
                               /\ DTable(type, UserNamespace, name, N) \in handles'
             /\ ( /\ N # None
                  /\ disk' # disk
                  /\ ~(\E T \in handles :
                         /\ SameTable(T, DTable(type, UserNamespace, name, N))
                         /\ last'.op = "destroy"
                         /\ Destroy(T)) )
                    => MetaCount(disk', type, UserNamespace, name) = N
      ]_vars

\* a table() call that asked for another count than the registered one and
\* got the registered one
C1_Witness ==
    /\ last.op = "table"
    /\ last.T.partitions # last.ret
    /\ MetaCount(disk, last.T.type, last.T.namespace, last.T.name) = last.ret
    /\ DTable(last.T.type, last.T.namespace, last.T.name, last.ret) \in handles

\* ------------------------------------------------------------------------
\* C2
\* ------------------------------------------------------------------------
\* C2: in every reachable state all handles of the same (type, namespace,
\* name) carry the same partition count, also after destroy or cleanup and a
\* new table() call with another count while an older handle is still held.
C2_HandlesAgree ==
    \A T1 \in handles, T2 \in handles :
        SameTable(T1, T2) => T1.partitions = T2.partitions

\* ------------------------------------------------------------------------
\* C3
\* ------------------------------------------------------------------------
\* C3: in every reachable state every entry of every table lies in the
\* partition the hasher gives for its key bytes and the partition count of
\* the table's handle.
C3_PartitionStability ==
    \A T \in handles :
        \A p \in 0..(T.partitions - 1) :
            \A k_bytes \in DOMAIN PartitionDb(disk, T, p) :
                hash_key_to_partition(k_bytes, T.partitions) = p

\* ------------------------------------------------------------------------
\* C4
\* ------------------------------------------------------------------------
\* the call the step finishes may end what put(k, v) on T established: it is a
\* put or delete of k through any handle of the table, or it destroys
\* partitions (destroy of the table, or a cleanup)
AffectsKey(T, k) ==
    \/ last'.op \in {"put", "delete"} /\ SameTable(T, last'.T) /\ last'.k = k
    \/ last'.op = "destroy" /\ SameTable(T, last'.T)
    \/ last'.op = "cleanup"

C5_PutIfAbsent ==
    [][\A T \in handles, k \in Keys, v \in Values :
         (last'.op = "put_if_absent" /\ PutIfAbsent(T, k, v)) =>
             /\ ~Present(disk, T, k) =>
                    /\ last'.ret = None
                    /\ get(disk', T, k) = v
                    /\ StoredKeys(disk', T) = StoredKeys(disk, T) \cup {kv_to_bytes(k)}
             /\ Present(disk, T, k) =>
                    /\ last'.ret = StoredValue(disk, T, k)
                    /\ TableContent(disk', T) = TableContent(disk, T)
             /\ (last.op = "put_if_absent" /\ last.T = T /\ last.k = k /\ last.ret = None)
                    => get(disk', T, k) = last.v
      ]_vars

\* a put_if_absent that found another value under its key and left it there
C5_Witness ==
    /\ last.op = "put_if_absent"
    /\ last.ret # None
    /\ last.ret # last.v
    /\ get(disk, last.T, last.k) = last.ret

\* ------------------------------------------------------------------------
\* C6
\* ------------------------------------------------------------------------
\* the pairs of kv_list from position i on are all stored in T, the last
\* pair of a key giving its value
RECURSIVE AllStored(_, _, _, _)
AllStored(d, T, kv_list, i) ==
    \/ i > Len(kv_list)
    \/ /\ kv_list[i].kind = "pair"
       /\ \/ \E j \in (i + 1)..Len(kv_list) : kv_list[j].k = kv_list[i].k
          \/ get(d, T, kv_list[i].k) = kv_list[i].v
       /\ AllStored(d, T, kv_list, i + 1)

\* C6: when put_all finishes, either every entry of the input is stored, or
\* (on any error while the input is consumed or written) the content of the
\* table is what it was before; and in both cases no write transaction that
\* put_all opened is still open.
C6_PutAllAllOrNothing ==
    [][\A T \in handles, kv_list \in KvLists :
         (last'.op = "put_all" /\ PutAll(T, kv_list)) =>
             /\ \/ AllStored(disk', T, kv_list, 1)
                \/ TableContent(disk', T) = TableContent(disk, T)
             /\ PartPaths(T) \cap leaked' = {}
      ]_vars

\* ------------------------------------------------------------------------
\* C7
\* ------------------------------------------------------------------------
\* the table the tasks of the call write, as the hasher lays it out
Derived == DTable("IN_MEMORY", JobId, run.func_id, run.left.partitions)

\* the keys both operands of the call hold
KeysOfBoth == {k \in OpKeys : get(disk, run.self0, k) # None /\ get(disk, run.other0, k) # None}

\* C7: whatever the partition counts of L and R, the table join(L, R, f)
\* returns holds exactly the keys L and R both hold, one entry per key, and
\* under each the value f(L[k], R[k]), L's value being the first argument.
C7_JoinIntersection ==
    (run.stage = "returned" /\ run.called = "join") =>
        /\ \A k \in OpKeys :
               get(disk, run.result, k) =
                   IF k \in KeysOfBoth
                   THEN apply_func(run.func, get(disk, run.self0, k), get(disk, run.other0, k))
                   ELSE None
        /\ count(disk, run.result) = Cardinality(KeysOfBoth)

\* a join of tables of different partition counts has returned a table that
\* is not empty, self being the operand that was rematerialised
C7_Witness ==
    /\ run.stage = "returned" /\ run.called = "join"
    /\ run.self0.partitions # run.other0.partitions
    /\ count(disk, run.other0) > count(disk, run.self0)
    /\ run.left # run.self0
    /\ count(disk, run.result) >= 1

\* ------------------------------------------------------------------------
\* C8
\* ------------------------------------------------------------------------
\* the keys of self that other does not hold
KeysOfSelfOnly ==
    {k \in OpKeys : get(disk, run.self0, k) # None /\ get(disk, run.other0, k) = None}

\* C8: whatever the partition counts of L and R and whichever holds more
\* entries, the table subtractByKey(L, R) returns holds exactly the keys of L
\* that R does not hold, each with L's value, and the tasks that ran on the
\* realigned operands are those of subtractByKey.
C8_SubtractByKey ==
    (run.stage = "returned" /\ run.called = "subtractByKey") =>
        /\ \A k \in OpKeys :
               get(disk, run.result, k) =
                   IF k \in KeysOfSelfOnly THEN get(disk, run.self0, k) ELSE None
        /\ count(disk, run.result) = Cardinality(KeysOfSelfOnly)
        /\ run.op = "subtractByKey"

\* ------------------------------------------------------------------------
\* C9
\* ------------------------------------------------------------------------
\* the keys of other that self does not hold
KeysOfOtherOnly ==
    {k \in OpKeys : get(disk, run.self0, k) = None /\ get(disk, run.other0, k) # None}

\* C9: whatever the partition counts, the table union(L, R, m) returns holds
\* exactly the keys L or R hold: L's value under a key only L holds, R's value
\* under a key only R holds, and m(L[k], R[k]) under a key both hold (L's
\* value with the default m).
C9_Union ==
    (run.stage = "returned" /\ run.called = "union") =>
        /\ \A k \in OpKeys :
               get(disk, run.result, k) =
                   IF k \in KeysOfBoth
                   THEN apply_func(run.func, get(disk, run.self0, k), get(disk, run.other0, k))
                   ELSE IF k \in KeysOfSelfOnly THEN get(disk, run.self0, k)
                   ELSE IF k \in KeysOfOtherOnly THEN get(disk, run.other0, k)
                   ELSE None
        /\ count(disk, run.result) =
               Cardinality(KeysOfBoth \cup KeysOfSelfOnly \cup KeysOfOtherOnly)

\* a union of tables of different partition counts has returned, with a key of
\* each kind: held by both, by self only, by other only
C9_Witness ==
    /\ run.stage = "returned" /\ run.called = "union"
    /\ run.self0.partitions # run.other0.partitions
    /\ run.func = "concat"
    /\ KeysOfBoth # {} /\ KeysOfSelfOnly # {} /\ KeysOfOtherOnly # {}

\* ------------------------------------------------------------------------
\* C10
\* ------------------------------------------------------------------------
\* the entry the mapper of the call makes of the entry of self under k
Mapped(k) == apply_mapper(run.func, k, get(disk, run.self0, k))

\* the keys of self that lie in its partition p
KeysOfPartition(p) == {k \in OpKeys : kv_to_bytes(k) \in DOMAIN PartitionDb(disk, run.self0, p)}

\* C10: with a mapper that is injective on keys, however the tasks of map
\* interleave, every entry a finished task wrote stays in the derived table,
\* and the table map returns holds exactly the mapped entries of the source:
\* as many entries as the source, f(k, v) for each.
C10_MapKeepsEveryEntry ==
    (run.called = "map") =>
        /\ \A p \in DOMAIN run.workers :
               run.workers[p].pc = "done" =>
                   \A k \in KeysOfPartition(p) : get(disk, Derived, Mapped(k)[1]) = Mapped(k)[2]
        /\ run.stage = "returned" =>
               /\ run.result = Derived
               /\ count(disk, run.result) = count(disk, run.self0)

\* a map has returned whose tasks, reading different source partitions, wrote
\* into the same destination partition
C10_Witness ==
    /\ run.stage = "returned" /\ run.called = "map"
    /\ \E p \in DOMAIN run.workers, q \in DOMAIN run.workers :
           /\ p # q
           /\ \E k1 \in KeysOfPartition(p), k2 \in KeysOfPartition(q) :
                  hash_key_to_partition(kv_to_bytes(Mapped(k1)[1]), run.result.partitions)
                      = hash_key_to_partition(kv_to_bytes(Mapped(k2)[1]), run.result.partitions)

\* ------------------------------------------------------------------------
\* C11
\* ------------------------------------------------------------------------
\* C11: the table mapValues(f) on T returns has the partition count of T,
\* and each of its partitions holds exactly the keys the partition of the same
\* index of T holds, each with the value f(T[k]).
C11_MapValues ==
    (run.stage = "returned" /\ run.called = "mapValues") =>
        /\ run.result = Derived
        /\ run.result.partitions = run.self0.partitions
        /\ \A p \in 0..(run.self0.partitions - 1) :
               /\ DOMAIN PartitionDb(disk, run.result, p)
                      = DOMAIN PartitionDb(disk, run.self0, p)
               /\ \A kb \in DOMAIN PartitionDb(disk, run.self0, p) :
                      deserialize(PartitionDb(disk, run.result, p)[kb]) =
                          apply_value_mapper(run.func,
                              deserialize(PartitionDb(disk, run.self0, p)[kb]))
        /\ \A k \in OpKeys :
               get(disk, run.result, k) =
                   IF get(disk, run.self0, k) = None THEN None
                   ELSE apply_value_mapper(run.func, get(disk, run.self0, k))

\* a mapValues of a table of two partitions, neither of them empty, has
\* returned
C11_Witness ==
    /\ run.stage = "returned" /\ run.called = "mapValues"
    /\ run.self0.partitions = 2
    /\ \A p \in 0..1 : DOMAIN PartitionDb(disk, run.self0, p) # {}
    /\ \A p \in 0..1 : DOMAIN PartitionDb(disk, run.result, p) # {}

\* ------------------------------------------------------------------------
\* C12
\* ------------------------------------------------------------------------
\* C12: each partition of the table filter(p) on T returns holds exactly the
\* entries of the partition of the same index of T whose key satisfies p, with
\* the value bytes T holds; which keys are kept is a matter of the key alone.
C12_Filter ==
    (run.stage = "returned" /\ run.called = "filter") =>
        /\ run.result.partitions = run.self0.partitions
        /\ \A p \in 0..(run.self0.partitions - 1) :
               /\ DOMAIN PartitionDb(disk, run.result, p) =
                      {kb \in DOMAIN PartitionDb(disk, run.self0, p) :
                          apply_filter(run.func, deserialize(kb))}
               /\ \A kb \in DOMAIN PartitionDb(disk, run.result, p) :
                      PartitionDb(disk, run.result, p)[kb]
                          = PartitionDb(disk, run.self0, p)[kb]
        /\ \A k \in OpKeys :
               get(disk, run.result, k) =
                   IF apply_filter(run.func, k) THEN get(disk, run.self0, k) ELSE None

\* a filter has returned that kept some entries of the table and dropped
\* others
C12_Witness ==
    /\ run.stage = "returned" /\ run.called = "filter"
    /\ count(disk, run.result) >= 1
    /\ count(disk, run.result) < count(disk, run.self0)

\* ------------------------------------------------------------------------
\* C13
\* ------------------------------------------------------------------------
\* the fold of the reducer of the call over the values of T that are not
\* None, from key k on
RECURSIVE FoldStored(_, _, _)
FoldStored(T, value, k) ==
    IF k > MaxOpKey THEN value
    ELSE FoldStored(T,
             IF get(disk, T, k) = None THEN value
             ELSE reduce_step(run.func, value, get(disk, T, k)),
             k + 1)

\* C13: reduce(f) with an associative and commutative f returns None on a
\* table that holds no value other than None, and otherwise the fold of f over
\* the stored values that are not None, however the entries are spread over
\* the partitions; a stored None is never handed to f, so f does not raise.
C13_Reduce ==
    (run.stage = "returned" /\ run.called = "reduce") =>
        last.ret = FoldStored(run.self0, None, 1)

\* ------------------------------------------------------------------------
\* C14
\* ------------------------------------------------------------------------
\* C14: in every reachable state, through every handle, collect yields each
\* entry the partitions hold exactly once, and the key bytes of the pairs it
\* yields ascend strictly, so no key is yielded twice.
C14_CollectSorted ==
    \A T \in handles :
        /\ Len(collect(disk, T)) = Cardinality(CursorEntries(disk, T))
        /\ {<<collect(disk, T)[i].k, collect(disk, T)[i].v>> :
               i \in 1..Len(collect(disk, T))}
               = {<<deserialize(e[1]), deserialize(e[2])>> : e \in CursorEntries(disk, T)}
        /\ \A i \in 1..(Len(collect(disk, T)) - 1) :
               BytesLess(kv_to_bytes(collect(disk, T)[i].k),
                         kv_to_bytes(collect(disk, T)[i + 1].k))

\* ------------------------------------------------------------------------
\* C15
\* ------------------------------------------------------------------------
\* C15: in every state reached by put, put_if_absent, delete, put_all and
\* operator calls, for every table, written or derived: count() is the number
\* of pairs collect yields and the number of distinct keys stored; a count()
\* or collect() call returns just that.
C15_CountIsCollected ==
    /\ \A T \in handles :
           /\ count(disk, T) = Len(collect(disk, T))
           /\ count(disk, T) = Cardinality(StoredKeys(disk, T))
    /\ last.op = "collect" => Len(last.ret) = count(disk, last.T)
    /\ last.op = "count" => last.ret = Len(collect(disk, last.T))

\* collect has yielded the two entries of a derived table of two partitions,
\* one from each
C15_Witness ==
    /\ last.op = "collect"
    /\ last.T.namespace = JobId
    /\ last.T.partitions = 2
    /\ Len(last.ret) = 2
    /\ \A p \in 0..1 : Cardinality(DOMAIN PartitionDb(disk, last.T, p)) = 1

\* ------------------------------------------------------------------------
\* C16
\* ------------------------------------------------------------------------
\* the partition directories of a table that exist
TableDirs(d, T) == {path \in DOMAIN d : InTableDir(path, T.type, T.namespace, T.name)}

\* C16: right after destroy through a handle T, every partition of T is
\* empty and get(k) through T returns None for every key, the meta registry
\* has no entry for the table, and no directory of the table exists; the
\* content, the directories and the registry entry of every other table are
\* what they were.
C16_Destroy ==
    [][\A T \in handles :
         (last'.op = "destroy" /\ last'.T = T /\ Destroy(T)) =>
             /\ \A p \in 0..(T.partitions - 1) : PartitionDb(disk', T, p) = EmptyDb
             /\ \A k \in OpKeys : get(disk', T, k) = None
             /\ MetaCount(disk', T.type, T.namespace, T.name) = None
             /\ TableDirs(disk', T) = {}
             /\ \A T2 \in handles :
                    ~SameTable(T, T2) =>
                        /\ TableContent(disk', T2) = TableContent(disk, T2)
                        /\ TableDirs(disk', T2) = TableDirs(disk, T2)
                        /\ MetaCount(disk', T2.type, T2.namespace, T2.name)
                               = MetaCount(disk, T2.type, T2.namespace, T2.name)
      ]_vars

\* a table has been destroyed while another table, registered in the same
\* partition of the meta registry, holds entries and is still registered
C16_Witness ==
    /\ last.op = "destroy"
    /\ MetaCount(disk, last.T.type, last.T.namespace, last.T.name) = None
    /\ \E T2 \in handles :
           /\ ~SameTable(last.T, T2)
           /\ MetaPath(T2.type, T2.namespace, T2.name)
                  = MetaPath(last.T.type, last.T.namespace, last.T.name)
           /\ MetaCount(disk, T2.type, T2.namespace, T2.name) = T2.partitions
           /\ count(disk, T2) >= 2

\* ------------------------------------------------------------------------
\* C17
\* ------------------------------------------------------------------------
\* C17: delete(k) on a table that holds k returns the value stored under k,
\* after it get(k) returns None and count() is one less; on a table that does
\* not hold k it returns None and changes no entry; in both cases get of
\* every other key returns what it returned before.
C17_Delete ==
    [][\A T \in handles, k \in Keys :
         (last'.op = "delete" /\ last'.T = T /\ last'.k = k /\ Delete(T, k)) =>
             /\ Present(disk, T, k) =>
                    /\ last'.ret = StoredValue(disk, T, k)
                    /\ get(disk', T, k) = None
                    /\ count(disk', T) = count(disk, T) - 1
             /\ ~Present(disk, T, k) =>
                    /\ last'.ret = None
                    /\ TableContent(disk', T) = TableContent(disk, T)
             /\ \A k2 \in Keys \ {k} : get(disk', T, k2) = get(disk, T, k2)
      ]_vars

\* a delete has returned the value of its key and left the other key of the
\* table in place
C17_Witness ==
    /\ last.op = "delete"
    /\ last.ret # None
    /\ get(disk, last.T, last.k) = None
    /\ count(disk, last.T) = 1

\* ------------------------------------------------------------------------
\* C18
\* ------------------------------------------------------------------------
\* C18: whatever the seed, each partition of the table sample(fraction, seed)
\* on T returns holds a subset of the entries of the partition of the same
\* index of T, with the value bytes of T; with fraction 0 it holds none of
\* them and with fraction 1 all of them.
C18_Sample ==
    (run.stage = "returned" /\ run.called = "sample") =>
        /\ run.result.partitions = run.self0.partitions
        /\ \A p \in 0..(run.self0.partitions - 1) :
               /\ DOMAIN PartitionDb(disk, run.result, p)
                      \subseteq DOMAIN PartitionDb(disk, run.self0, p)
               /\ \A kb \in DOMAIN PartitionDb(disk, run.result, p) :
                      PartitionDb(disk, run.result, p)[kb]
                          = PartitionDb(disk, run.self0, p)[kb]
               /\ run.func[1] = 0 => PartitionDb(disk, run.result, p) = EmptyDb
               /\ run.func[1] = RandUnit =>
                      DOMAIN PartitionDb(disk, run.result, p)
                          = DOMAIN PartitionDb(disk, run.self0, p)

\* of a table that holds entries in two partitions, a sample with fraction 0
\* has returned an empty table and then a sample with fraction 1 all entries
C18_Witness ==
    /\ run.stage = "returned" /\ run.called = "sample"
    /\ run.prev # <<>>
    /\ run.prev[1].func[1] = 0
    /\ run.func[1] = RandUnit
    /\ \A p \in 0..1 : DOMAIN PartitionDb(disk, run.self0, p) # {}
    /\ count(disk, run.prev[1].result) = 0
    /\ count(disk, run.result) = count(disk, run.self0)

\* ------------------------------------------------------------------------
\* C19
\* ------------------------------------------------------------------------
\* C19: two sample calls with the same fraction and the same seed other than
\* None on the same table return tables that hold the same entries in every
\* partition, however their tasks were scheduled; with such a seed the entry
\* of rank i in the key order of its partition is kept exactly when the i-th
\* draw of the generator seeded with it is below the fraction.
C19_SampleDeterminism ==
    (run.stage = "returned" /\ run.called = "sample" /\ run.func[2] # None) =>
        /\ (run.prev # <<>> /\ run.prev[1].func = run.func
                /\ run.prev[1].self0 = run.self0) =>
               \A p \in 0..(run.self0.partitions - 1) :
                   PartitionDb(disk, run.result, p)
                       = PartitionDb(disk, run.prev[1].result, p)
        /\ \A p \in 0..(run.self0.partitions - 1) :
               DOMAIN PartitionDb(disk, run.result, p) =
                   sample_kept(cursor_keys(DOMAIN PartitionDb(disk, run.self0, p)),
                               run.func[1], RandomState[run.func[2]])

\* two samples with the same seed and fraction one half have returned, each
\* with some entries of the table and without others
C19_Witness ==
    /\ run.stage = "returned" /\ run.called = "sample"
    /\ run.prev # <<>>
    /\ run.func[2] # None
    /\ run.prev[1].func = run.func
    /\ run.func[1] = RandUnit \div 2
    /\ run.self0.partitions = 2
    /\ count(disk, run.result) >= 1
    /\ count(disk, run.result) < count(disk, run.self0)

\* ------------------------------------------------------------------------
\* C20
\* ------------------------------------------------------------------------
\* C20: for every key and every partition count N >= 1 the hasher returns an
\* index in 0..N-1, the index it returns on any other call with the same key
\* and N, and 0 when N = 1; for N < 1 it raises instead of returning an index;
\* every reseeding of the 64-bit key yields a 64-bit value again.
C20_HasherRange ==
    last.op = "hash" =>
        /\ last.v >= 1 =>
               /\ last.ret \in 0..(last.v - 1)
               /\ last.ret = JumpLoop(0, Sha1Digest[last.k], last.v)
               /\ last.v = 1 => last.ret = 0
        /\ last.v < 1 => last.ret = Raised
        /\ Len(NextSeed(Sha1Digest[last.k])) = 8
        /\ \A i \in 1..8 : NextSeed(Sha1Digest[last.k])[i] \in 0..255
        /\ NextSeed(Sha1Digest[last.k])[1] = (Sha1Digest[last.k][1] * MulConst[1] + 1) % 256

\* a call with more than one partition that returned the last index
C20_Witness ==
    /\ last.op = "hash"
    /\ last.v > 1
    /\ last.ret = last.v - 1

\* ------------------------------------------------------------------------
\* C21
\* ------------------------------------------------------------------------
\* C21: cleanup(name, namespace, persistent) raises ValueError when name or
\* namespace is blank and EnvironmentError when the directory of the tier or
\* of the namespace does not exist, and then every partition directory is
\* what it was; otherwise it returns, the directories of the tables of that
\* tier and namespace whose name matches the pattern are gone, and every
\* other directory, of another name, namespace or tier, is what it was.
C21_Cleanup ==
    [][\A name \in CleanupNames, namespace \in CleanupNamespaces, persistent \in BOOLEAN :
         (/\ last'.op = "cleanup"
          /\ last'.T = DTable(StoreTypeOf(persistent), namespace, name, None)
          /\ Cleanup(name, namespace, persistent)) =>
             LET type == StoreTypeOf(persistent)
                 blank == name = "" \/ namespace = ""
                 missing == \/ ~(\E x \in namespaces : x[1] = type)
                            \/ <<type, namespace>> \notin namespaces
             IN  /\ blank =>
                        /\ last'.ret = Raised
                        /\ cleanup_check(namespaces, name, namespace, persistent)
                               = "ValueError"
                        /\ disk' = disk
                 /\ (~blank /\ missing) =>
                        /\ last'.ret = Raised
                        /\ cleanup_check(namespaces, name, namespace, persistent)
                               = "EnvironmentError"
                        /\ disk' = disk
                 /\ (~blank /\ ~missing) =>
                        /\ last'.ret = None
                        /\ DOMAIN disk' =
                               {path \in DOMAIN disk :
                                   ~(/\ path[1] = type
                                     /\ path[2] = namespace
                                     /\ (name = "*" \/ path[3] = name))}
                        /\ \A path \in DOMAIN disk' : disk'[path] = disk[path]
      ]_vars

\* cleanup("a", "ns", True) has removed the directories of the persistent
\* table a of namespace ns while the persistent table b of the namespace, the
\* in-memory table a of the namespace and a table of another namespace keep
\* theirs
C21_Witness ==
    /\ last.op = "cleanup" /\ last.ret = None
    /\ last.T = DTable("LMDB", "ns", "a", None)
    /\ ListDir(disk, "LMDB", "ns") = {"b"}
    /\ ListDir(disk, "IN_MEMORY", "ns") = {"a"}
    /\ ListDir(disk, "LMDB", "job") = {"u1"}

\* ------------------------------------------------------------------------
\* C22
\* ------------------------------------------------------------------------
\* the tasks that hold an uncommitted write transaction on partition i of the
\* table the call writes
Holders(r, i) == {p \in DOMAIN r.workers : i \in r.workers[p].held}

Realigned(T, n) ==
    /\ T = DTable("LMDB", JobId, uuid1(0), n)
    /\ MetaCount(disk, "LMDB", JobId, uuid1(0)) = n

\* C23: when join, union or subtractByKey has submitted its tasks, they are
\* the tasks of the operator that was called, on operands of equal partition
\* counts; operands that had equal counts are used as they are; of operands
\* with different counts the one with fewer entries (the right one on a tie)
\* is replaced by its save_as copy, made once under a fresh name at the
\* partition count of the other, with the same entries, and the other operand
\* is used as it is, left staying left and right staying right.
C23_Alignment ==
    (run.stage = "tasks" /\ run.called \in {"join", "union", "subtractByKey"}) =>
        /\ run.op = run.called
        /\ run.left.partitions = run.right.partitions
        /\ run.self0.partitions = run.other0.partitions =>
               /\ run.left = run.self0 /\ run.right = run.other0
               /\ run.uuids = 1
        /\ run.self0.partitions # run.other0.partitions =>
               /\ run.uuids = 2
               /\ IF count(disk, run.other0) > count(disk, run.self0)
                  THEN /\ run.right = run.other0
                       /\ Realigned(run.left, run.other0.partitions)
                       /\ collect(disk, run.left) = collect(disk, run.self0)
                  ELSE /\ run.left = run.self0
                       /\ Realigned(run.right, run.self0.partitions)
                       /\ collect(disk, run.right) = collect(disk, run.other0)

\* ------------------------------------------------------------------------
\* C24
\* ------------------------------------------------------------------------
\* C24: an operator call returns only when every one of its tasks has
\* completed, it raises only the error of a task that raised, and once a task
\* of the call has raised the call eventually raises.
C24_FailurePropagation ==
    /\ [](run.stage = "returned" =>
              \A p \in DOMAIN run.workers : run.workers[p].pc = "done")
    /\ [](run.stage = "raised" =>
              \E p \in DOMAIN run.workers : run.workers[p].pc = "failed")
    /\ [](\A p \in 0..(MaxPart - 1) :
              (/\ run.stage = "tasks"
               /\ p \in DOMAIN run.workers
               /\ run.workers[p].pc = "failed") => <>(run.stage = "raised"))


\* ------------------------------------------------------------------------
\* C25: the meta registry is read and written only by the control process:
\* no task of any operator begins a transaction on an environment of the
\* meta registry.  (Violated: do_map reads the partition count of its source
\* with Standalone.get_instance().meta_table.get inside the task, line 198,
\* and _DTable.get begins a write transaction, 492-498.)
\* ------------------------------------------------------------------------
C25_MetaControlOnly ==
    \A o \in run.opened : o[2][1] # MetaTable.type


\* ------------------------------------------------------------------------
\* C27: map is deadlock-free.  Every do_map task begins its write
\* transactions on the destination partitions in ascending index order
\* 0..N-1 (what it holds while it begins is an initial segment of the
\* indices) and holds all N of them while it consumes its source and until
\* it commits; and, every mapper call returning, a map call whose tasks were
\* submitted eventually returns, with every task committed.
\* ------------------------------------------------------------------------
C27_MapDeadlockFree ==
    /\ [](\A p \in DOMAIN run.workers :
              (run.op = "map" /\ run.workers[p].pc \in {"begin", "process"}) =>
                  /\ run.workers[p].held = 0..(Cardinality(run.workers[p].held) - 1)
                  /\ (run.workers[p].pc = "process" =>
                          run.workers[p].held = 0..(run.workers[p].partitions - 1)))
    /\ [](run.stage = "returned" =>
              \A p \in DOMAIN run.workers : run.workers[p].pc = "done")
    /\ (run.stage = "tasks") ~> (run.stage = "returned")

\* a map over two partitions has returned, both tasks having run
C27_Witness ==
    /\ run.stage = "returned" /\ run.op = "map"
    /\ DOMAIN run.workers = {0, 1}
    /\ \A p \in {0, 1} : \E o \in run.opened : o = <<p, DstPath(1 - p)>>


\* ------------------------------------------------------------------------
\* C28
\* ------------------------------------------------------------------------
\* c_pickle.loads: the object at position i of the bytes, and the tuples from
\* position i up to the APPEND, APPENDS or STOP
load_obj(bytes, i) == IF bytes[i] = OpNone THEN None ELSE bytes[i + 1]
obj_len(bytes, i) == IF bytes[i] = OpNone THEN 1 ELSE 2
RECURSIVE load_tuples(_, _)
load_tuples(bytes, i) ==
    IF bytes[i] \in {OpAppend, OpAppends, OpStop} THEN <<>>
    ELSE <<<<load_obj(bytes, i), load_obj(bytes, i + obj_len(bytes, i))>>>>
             \o load_tuples(bytes, i + obj_len(bytes, i)
                                     + obj_len(bytes, i + obj_len(bytes, i)) + 3)

\* c_pickle.loads(bytes) of a pickled list of 2-tuples
deserialize_list(bytes) ==
    load_tuples(bytes, IF bytes[6] = OpMark THEN 7 ELSE 6)

\* the list is the (key, value) pairs of the database, in ascending key order
PairsInKeyOrder(list, db) ==
    /\ Len(list) = Cardinality(DOMAIN db)
    /\ \A i \in 1..Len(list) :
           /\ serialize(list[i][1]) \in DOMAIN db
           /\ list[i][2] = deserialize(db[serialize(list[i][1])])
    /\ \A i, j \in 1..Len(list) :
           i < j => BytesLess(serialize(list[i][1]), serialize(list[j][1]))

\* C28: the table glom() or mapPartitions(f) on T returns has no entry in a
\* partition whose partition of T is empty and exactly one entry in every
\* other partition: it is stored in the partition of the same index under the
\* greatest (last) key of that partition of T, and its value is, for glom, the
\* list of all (key, value) pairs of the partition in key order and, for
\* mapPartitions, the single value f returned for those pairs.
C28_OneEntryPerPartition ==
    (run.stage = "returned" /\ run.called \in {"glom", "mapPartitions"}) =>
        /\ run.result = Derived
        /\ run.result.partitions = run.self0.partitions
        /\ \A p \in 0..(run.self0.partitions - 1) :
               LET src == PartitionDb(disk, run.self0, p)
                   dst == PartitionDb(disk, run.result, p)
               IN  /\ DOMAIN src = {} => DOMAIN dst = {}
                   /\ DOMAIN src # {} =>
                          /\ Cardinality(DOMAIN dst) = 1
                          /\ \A kb \in DOMAIN dst :
                                 /\ kb \in DOMAIN src
                                 /\ \A other \in DOMAIN src \ {kb} : BytesLess(other, kb)
                                 /\ run.called = "glom" =>
                                        PairsInKeyOrder(deserialize_list(dst[kb]), src)
                                 /\ run.called = "mapPartitions" =>
                                        /\ PairsInKeyOrder(
                                               generator_from_cursor(src,
                                                   cursor_keys(DOMAIN src), 1), src)
                                        /\ deserialize(dst[kb]) =
                                               apply_partition_mapper(run.func,
                                                   generator_from_cursor(src,
                                                       cursor_keys(DOMAIN src), 1))

\* a glom of a table of two partitions has returned, one partition of the
\* table empty and the other holding several entries
C28_Witness ==
    /\ run.stage = "returned" /\ run.called = "glom"
    /\ run.self0.partitions = 2
    /\ \E p \in 0..1 :
           /\ Cardinality(DOMAIN PartitionDb(disk, run.self0, p)) > 1
           /\ DOMAIN PartitionDb(disk, run.result, p) # {}
           /\ DOMAIN PartitionDb(disk, run.self0, 1 - p) = {}


\* ------------------------------------------------------------------------
\* C29
\* ------------------------------------------------------------------------
\* no table of the job is stored or registered under the name
FreshName(name) ==
    /\ \A path \in DOMAIN disk : ~(path[2] = JobId /\ path[3] = name)
    /\ \A type \in {"LMDB", "IN_MEMORY"} : MetaCount(disk, type, JobId, name) = None

\* the step stores something in the environment: an entry is put or deleted
Written(path) ==
    IF path \in DOMAIN disk THEN disk'[path] # disk[path] ELSE disk'[path] # EmptyDb

\* C29: every step of an operator call (the call, each of its tasks, its
\* return) leaves the entries of every partition and the meta registry entry
\* (hence the partition count) of every table that exists unchanged, the
\* sources of the call among them.  The call draws a name under which nothing
\* of the job is stored or registered for its derived table and, on
\* realignment, another one for the save-as table; the only environments a
\* task writes are partitions of (IN_MEMORY, job id, function id); the only
\* ones the call itself writes are those of the save-as table and the meta
\* registry.
C29_SourcesUnchanged ==
    [][/\ \A T \in handles :
              /\ TableContent(disk', T) = TableContent(disk, T)
              /\ MetaCount(disk', T.type, T.namespace, T.name)
                     = MetaCount(disk, T.type, T.namespace, T.name)
       /\ (run.stage # "tasks" /\ run'.stage = "tasks") =>
              /\ FreshName(run'.func_id)
              /\ run'.self0 \in handles
              /\ \A T \in {run'.left, run'.right} :
                     (T.namespace = JobId /\ T \notin handles) =>
                         FreshName(T.name) /\ T.name # run'.func_id
       /\ \A path \in DOMAIN disk' :
              (Written(path) /\ path[1] # MetaTable.type) =>
                  IF run.stage = "tasks"
                  THEN /\ path[1] = "IN_MEMORY" /\ path[2] = JobId
                       /\ path[3] = run.func_id
                       /\ path[3] = run'.func_id
                  ELSE /\ path[1] = "LMDB" /\ path[2] = JobId
                       /\ \E T \in {run'.left, run'.right} \ handles : path[3] = T.name
      ]_vars

\* the tasks of a second call on a table have written their derived table,
\* the table the first call derived from the same source still being there
C29_Witness ==
    /\ run.stage = "tasks" /\ run.prev # <<>>
    /\ \A p \in DOMAIN run.workers : run.workers[p].pc = "done"
    /\ \E p \in DOMAIN run.workers : PartitionDb(disk, Derived, p) # EmptyDb
    /\ \E T \in handles :
           /\ T.namespace = JobId /\ T.name # run.func_id
           /\ StoredKeys(disk, T) # {}
    /\ StoredKeys(disk, run.self0) # {}


\* ------------------------------------------------------------------------
\* C26: the cache of environments holds at most CacheMaxsize open
\* environments and never closes one on which a transaction is in progress,
\* whatever the partition count of the table put_all or collect holds its
\* transactions on.  (Violated: _evict closes the least recently used
\* environment unconditionally.)
\* ------------------------------------------------------------------------
C26_NeverClosesLive ==
    /\ Len(cache.lru) <= CacheMaxsize
    /\ cache.closed = {}
====
